---- MODULE Spec2Model ----
(***************************************************************************)
(* Tabi: storage abstraction (src/lib/storage.js), tab registry (the       *)
(* tabs-manager part of src/lib/storage.js) and import/export reconciler   *)
(* (src/lib/import-export.js), together with the page handlers that call   *)
(* them (src/popup/popup.js, src/options/options.js).                      *)
(*                                                                         *)
(* An operation is a composition of host calls threaded through a          *)
(* "machine" record m: st is the pair of chrome.storage areas, cache the    *)
(* module-level cachedStorageMode of every page context, page the module-  *)
(* level snapshots of every page, ids the number of                        *)
(* UUIDs the operation has drawn, calls the number of host calls it has    *)
(* issued, fail the index of the host call that rejects (0: none), err the *)
(* message of the error thrown so far ("": none), site the function that   *)
(* threw it and ret the value returned.  Once err is set every later step  *)
(* is skipped, as a rejected await skips the rest of an async function.    *)
(***************************************************************************)
EXTENDS Integers, Sequences, FiniteSets, TLC

VARIABLES
  chromeStorage,      \* [local, sync]: the two chrome.storage areas
  cachedStorageMode,  \* per page context: "null", "local" or "sync"
  pages,              \* per page context: the page's savedTabs and allLabels
  now,                \* Date.now()
  exported,           \* the last document exportToJSON returned
  lastCall,           \* the operation that ran last, with its arguments
  lastResult,         \* what it returned or threw
  inflight,           \* per caller: a saveTab call between its awaits
  browserTabs         \* the urls chrome.tabs.create was called with, in order

vars == <<chromeStorage, cachedStorageMode, pages, now,
          exported, lastCall, lastResult, inflight, browserTabs>>

-----------------------------------------------------------------------------
(* Bounds *)

MaxTabs == 2      \* stored tab records per area
MaxLabels == 2    \* stored custom labels per area
MaxClock == 2     \* values Date.now() takes
MaxFail == 5      \* host calls of one operation that may be chosen to fail
MaxOpened == 2    \* browser tabs chrome.tabs.create has opened
MaxGroupTabs == 3 \* tabs in a list handed to getSortedDomainGroups
MaxSearchTabs == 3 \* tabs in a list handed to the search functions
MaxDocTabs == 2 \* tabs in a document handed to validateImportData

-----------------------------------------------------------------------------
(* Values *)

NULL == "null"

\* JSON values of an import document: null, and a member that is or is not
\* an array
Null == [type |-> "null"]
Arr(items) == [array |-> TRUE, items |-> items]
NotArr == [array |-> FALSE]
Modes == {"local", "sync"}
Contexts == {"popup", "options", "tabs"}
DataKeys == {"tabs", "customLabels"}

EmptyObj == [k \in {} |-> TRUE]

DEFAULT_SETTINGS ==
  [storageMode |-> "local", defaultLabels |-> <<>>, groupsCollapsed |-> EmptyObj]

PREDEFINED_LABELS ==
  << [id |-> "work", name |-> "Work", color |-> "#3B82F6", isCustom |-> FALSE],
     [id |-> "personal", name |-> "Personal", color |-> "#10B981", isCustom |-> FALSE],
     [id |-> "read-later", name |-> "Read Later", color |-> "#F59E0B", isCustom |-> FALSE],
     [id |-> "reference", name |-> "Reference", color |-> "#8B5CF6", isCustom |-> FALSE],
     [id |-> "learning", name |-> "Learning", color |-> "#EC4899", isCustom |-> FALSE],
     [id |-> "shopping", name |-> "Shopping", color |-> "#EF4444", isCustom |-> FALSE] >>

\* Two page titles too long to write out: 60,000 ASCII characters and 40,000
\* CJK characters (one UTF-16 code unit and three UTF-8 bytes each).
BigAscii == "<60000 x 'a'>"
BigCJK == "<40000 x U+4E2D>"

\* String.prototype.length: the number of UTF-16 code units
StrUnits(s) ==
  CASE s = BigAscii -> 60000
    [] s = BigCJK -> 40000
    [] OTHER -> Len(s)

\* the number of bytes of the string in the UTF-8 encoding the host stores
StrBytes(s) ==
  CASE s = BigAscii -> 60000
    [] s = BigCJK -> 120000
    [] OTHER -> Len(s)

\* { ...a, ...b }
Spread(a, b) ==
  [k \in (DOMAIN a) \cup (DOMAIN b) |-> IF k \in DOMAIN b THEN b[k] ELSE a[k]]

\* o.f || dflt for a string-valued field
OrElse(o, f, dflt) == IF f \in DOMAIN o /\ o[f] # "" THEN o[f] ELSE dflt

RECURSIVE SumSeq(_)
SumSeq(s) == IF s = <<>> THEN 0 ELSE Head(s) + SumSeq(Tail(s))

\* t.id === id, for records that may lack the member
HasId(t, id) == "id" \in DOMAIN t /\ t["id"] = id

\* o.f is truthy, for a string-valued member
Truthy(o, f) == f \in DOMAIN o /\ o[f] # ""

Range(s) == {s[i] : i \in DOMAIN s}

-----------------------------------------------------------------------------
(* JSON.stringify(data).length and the UTF-8 size of the same text *)

TabFields == <<"id", "url", "domain", "title", "description", "labels",
               "dateAdded", "favicon", "dateModified">>
LabelFields == <<"id", "name", "color", "isCustom">>

\* a string value in quotes, measured in code units or in bytes
JsonStr(s, bytes) == 2 + (IF bytes THEN StrBytes(s) ELSE StrUnits(s))

\* an array of strings
JsonStrArray(a, bytes) ==
  2 + SumSeq([i \in DOMAIN a |-> JsonStr(a[i], bytes)])
    + (IF Len(a) > 1 THEN Len(a) - 1 ELSE 0)

\* one member value: epoch milliseconds print as 13 digits, a boolean as
\* true/false, the label list as an array, everything else as a string
JsonValue(k, v, bytes) ==
  CASE k \in {"dateAdded", "dateModified"} -> 13
    [] k = "isCustom" -> (IF v THEN 4 ELSE 5)
    [] k = "labels" -> JsonStrArray(v, bytes)
    [] OTHER -> JsonStr(v, bytes)

\* an object: braces, "key":value members, commas
JsonObject(o, fields, bytes) ==
  LET member(i) == IF fields[i] \in DOMAIN o
                   THEN Len(fields[i]) + 3 + JsonValue(fields[i], o[fields[i]], bytes)
                   ELSE 0
      n == Cardinality(DOMAIN o)
  IN 2 + SumSeq([i \in DOMAIN fields |-> member(i)]) + (IF n > 1 THEN n - 1 ELSE 0)

JsonArray(a, fields, bytes) ==
  2 + SumSeq([i \in DOMAIN a |-> JsonObject(a[i], fields, bytes)])
    + (IF Len(a) > 1 THEN Len(a) - 1 ELSE 0)

\* the {tabs, customLabels} object migrateStorage reads: only the keys the
\* source area holds are members
JsonData(data, bytes) ==
  LET n == Cardinality(DOMAIN data)
  IN 2 + (IF "tabs" \in DOMAIN data
          THEN Len("tabs") + 3 + JsonArray(data["tabs"], TabFields, bytes) ELSE 0)
       + (IF "customLabels" \in DOMAIN data
          THEN Len("customLabels") + 3 + JsonArray(data["customLabels"], LabelFields, bytes)
          ELSE 0)
       + (IF n > 1 THEN n - 1 ELSE 0)

\* JSON.stringify(data).length
JSONLength(data) == JsonData(data, FALSE)

\* the bytes the same serialization occupies
JSONBytes(data) == JsonData(data, TRUE)

SyncLimit == 100000

-----------------------------------------------------------------------------
(* The host: chrome.storage.local and chrome.storage.sync *)

EmptyArea ==
  [present |-> {}, settings |-> DEFAULT_SETTINGS, tabs |-> <<>>, customLabels |-> <<>>]

\* area.get(keys): the object holding the requested keys the area has
HostGet(area, keys) ==
  [k \in (keys \cap area.present) |->
     CASE k = "tabs" -> area.tabs
       [] k = "customLabels" -> area.customLabels
       [] OTHER -> area.settings]

\* area.set(items)
HostSet(st, a, items) ==
  [st EXCEPT ![a] =
     [present |-> @.present \cup DOMAIN items,
      settings |-> IF "settings" \in DOMAIN items THEN items["settings"] ELSE @.settings,
      tabs |-> IF "tabs" \in DOMAIN items THEN items["tabs"] ELSE @.tabs,
      customLabels |-> IF "customLabels" \in DOMAIN items
                       THEN items["customLabels"] ELSE @.customLabels]]

\* area.remove(keys)
HostRemove(st, a, keys) ==
  [st EXCEPT ![a] =
     [present |-> @.present \ keys,
      settings |-> IF "settings" \in keys THEN DEFAULT_SETTINGS ELSE @.settings,
      tabs |-> IF "tabs" \in keys THEN <<>> ELSE @.tabs,
      customLabels |-> IF "customLabels" \in keys THEN <<>> ELSE @.customLabels]]

NoValue == [type |-> "undefined"]

\* the messages of the errors the operations throw; HostError stands for
\* whatever message a rejected chrome.* call carries
HostError == "host call rejected"
CapacityError == "Data too large for sync storage. Please reduce saved tabs first."
NotFoundError == "Tab not found"

\* the machine an operation starts from
Begin(fail) ==
  [st |-> chromeStorage, cache |-> cachedStorageMode, page |-> pages,
   opened |-> browserTabs, ids |-> 0,
   calls |-> 0, fail |-> fail, err |-> "", site |-> "", ret |-> NoValue]

\* one awaited host call: the fail-th call of the operation rejects, any
\* other leaves the areas as st2
HostCall(m, st2) ==
  IF m.err # "" THEN m
  ELSE IF m.fail = m.calls + 1 THEN [m EXCEPT !.calls = @ + 1, !.err = HostError]
  ELSE [m EXCEPT !.calls = @ + 1, !.st = st2]

\* await chrome.tabs.create({ url }): one more host call, which opens the
\* url in a new browser tab unless it is the one that rejects
HostCreate(m, url) ==
  IF m.err # "" THEN m
  ELSE IF m.fail = m.calls + 1 THEN [m EXCEPT !.calls = @ + 1, !.err = HostError]
  ELSE [m EXCEPT !.calls = @ + 1, !.opened = Append(@, url)]

Throw(m, e) == IF m.err # "" THEN m ELSE [m EXCEPT !.err = e]

\* m2 is m1 after a call of function f: an error raised inside is marked
\* with the function it came from
Within(f, m1, m2) ==
  IF m1.err = "" /\ m2.err # "" THEN [m2 EXCEPT !.site = f] ELSE m2

\* what the caller of an operation that ended in machine m observes
Outcome(m) ==
  [err |-> m.err, site |-> m.site, value |-> IF m.err = "" THEN m.ret ELSE NoValue]

Return(m, v) == IF m.err # "" THEN m ELSE [m EXCEPT !.ret = v]

-----------------------------------------------------------------------------
(* src/lib/storage.js: the storage abstraction *)

\* getStorageArea in context c: fills the cache from the local settings on
\* first use; afterwards m.cache[c] names the area
getStorageArea(m, c) ==
  IF m.err # "" \/ m.cache[c] # NULL THEN m
  ELSE LET m1 == HostCall(m, m.st)
           result == HostGet(m.st.local, {"settings"})
           mode == IF "settings" \in DOMAIN result
                   THEN result["settings"].storageMode ELSE "local"
       IN IF m1.err # "" THEN m1 ELSE [m1 EXCEPT !.cache[c] = mode]

\* get(keys): the machine after the call; Got is the object it resolved to
get(m, c) ==
  LET rest(m1) == HostCall(m1, m1.st)
  IN rest(getStorageArea(m, c))

Got(m, c, keys) == HostGet(m.st[m.cache[c]], keys)

\* const { key = [] } = await get(key)
GotList(m, c, key) ==
  LET result == Got(m, c, {key}) IN IF key \in DOMAIN result THEN result[key] ELSE <<>>

\* a variant that writes to the area the persisted settings name, whatever
\* the cache says
setInPersistedArea(m, c, items) ==
  LET rest(m1) ==
        IF m1.err # "" THEN m1
        ELSE LET result == HostGet(m1.st.local, {"settings"})
                 mode == IF "settings" \in DOMAIN result
                         THEN result["settings"].storageMode ELSE "local"
             IN HostCall(m1, HostSet(m1.st, mode, items))
  IN rest(getStorageArea(m, c))

\* set(items)
set(m, c, items) ==
  LET rest(m1) ==
        IF m1.err # "" THEN m1 ELSE HostCall(m1, HostSet(m1.st, m1.cache[c], items))
  IN rest(getStorageArea(m, c))

\* remove(keys)
remove(m, c, keys) ==
  LET rest(m1) ==
        IF m1.err # "" THEN m1 ELSE HostCall(m1, HostRemove(m1.st, m1.cache[c], keys))
  IN rest(getStorageArea(m, c))

\* getSettings: always from the local area, merged over the defaults
getSettings(m) == HostCall(m, m.st)

GotSettings(m) ==
  LET result == HostGet(m.st.local, {"settings"})
  IN IF "settings" \in DOMAIN result
     THEN Spread(DEFAULT_SETTINGS, result["settings"]) ELSE DEFAULT_SETTINGS

\* a variant that moves every key of the source, the settings included
migrateStorageEveryKey(m, fromMode, toMode) ==
  LET m1 == HostCall(m, m.st)
      data == HostGet(m.st[fromMode], DataKeys \cup {"settings"})
      m2 == IF toMode = "sync" /\ JSONLength(data) > SyncLimit
            THEN Throw(m1, CapacityError) ELSE m1
      m3 == HostCall(m2, HostSet(m2.st, toMode, data))
  IN IF fromMode # "local" THEN HostCall(m3, HostRemove(m3.st, fromMode, DataKeys))
     ELSE m3

\* a variant that clears the source whichever area it is
migrateStorageMove(m, fromMode, toMode) ==
  LET m1 == HostCall(m, m.st)
      data == HostGet(m.st[fromMode], DataKeys)
      m2 == IF toMode = "sync" /\ JSONLength(data) > SyncLimit
            THEN Throw(m1, CapacityError) ELSE m1
      m3 == HostCall(m2, HostSet(m2.st, toMode, data))
  IN HostCall(m3, HostRemove(m3.st, fromMode, DataKeys))

\* migrateStorage(fromMode, toMode)
migrateStorage(m, fromMode, toMode) ==
  LET m1 == HostCall(m, m.st)
      data == HostGet(m.st[fromMode], DataKeys)
      m2 == IF toMode = "sync" /\ JSONLength(data) > SyncLimit
            THEN Throw(m1, CapacityError) ELSE m1
      m3 == HostCall(m2, HostSet(m2.st, toMode, data))
  IN IF fromMode # "local" THEN HostCall(m3, HostRemove(m3.st, fromMode, DataKeys))
     ELSE m3

\* a variant that writes the new settings and sets the cache first and
\* migrates afterwards
updateSettingsPersistFirst(m, c, updates) ==
  LET m1 == getSettings(m)
      current == GotSettings(m)
      newSettings == Spread(current, updates)
      changed == "storageMode" \in DOMAIN updates
                 /\ updates["storageMode"] # current.storageMode
      m2 == HostCall(m1, HostSet(m1.st, "local", [settings |-> newSettings]))
      m3 == IF changed /\ m2.err = ""
            THEN [m2 EXCEPT !.cache[c] = updates["storageMode"]] ELSE m2
  IN Return(IF changed
            THEN Within("migrateStorage", m3,
                        migrateStorage(m3, current.storageMode, updates["storageMode"]))
            ELSE m3,
            newSettings)

\* updateSettings(updates) in context c
updateSettings(m, c, updates) ==
  LET m1 == getSettings(m)
      current == GotSettings(m)
      newSettings == Spread(current, updates)
      changed == "storageMode" \in DOMAIN updates
                 /\ updates["storageMode"] # current.storageMode
      m2 == IF changed
            THEN Within("migrateStorage", m1,
                        migrateStorage(m1, current.storageMode, updates["storageMode"]))
            ELSE m1
      m3 == IF changed /\ m2.err = ""
            THEN [m2 EXCEPT !.cache[c] = updates["storageMode"]] ELSE m2
  IN Return(HostCall(m3, HostSet(m3.st, "local", [settings |-> newSettings])),
            newSettings)

\* a variant that decides on the settings key alone and then writes all
\* three defaults
initializeStorageWhenNoSettings(m) ==
  LET m1 == HostCall(m, m.st)
      existing == HostGet(m.st.local, {"settings", "tabs", "customLabels"})
  IN IF "settings" \in DOMAIN existing THEN m1
     ELSE HostCall(m1, HostSet(m1.st, "local",
                     [settings |-> DEFAULT_SETTINGS, tabs |-> <<>>, customLabels |-> <<>>]))

\* initializeStorage: three independent writes of the absent defaults
initializeStorage(m) ==
  LET m1 == HostCall(m, m.st)
      existing == HostGet(m.st.local, {"settings", "tabs", "customLabels"})
      m2 == IF "settings" \notin DOMAIN existing
            THEN HostCall(m1, HostSet(m1.st, "local", [settings |-> DEFAULT_SETTINGS]))
            ELSE m1
      m3 == IF "tabs" \notin DOMAIN existing
            THEN HostCall(m2, HostSet(m2.st, "local", [tabs |-> <<>>]))
            ELSE m2
  IN IF "customLabels" \notin DOMAIN existing
     THEN HostCall(m3, HostSet(m3.st, "local", [customLabels |-> <<>>]))
     ELSE m3

-----------------------------------------------------------------------------
(* src/lib/domain-grouper.js *)

\* extractDomain: the hostname of a parseable absolute URL, else "other"
\* a variant whose catch branch hands back its argument
extractDomainOrArgument(url) ==
  CASE url = "https://github.com/x" -> "github.com"
    [] url = "https://github.com/y" -> "github.com"
    [] url = "https://example.org/a" -> "example.org"
    [] url = "http://constructor/x" -> "constructor"
    [] OTHER -> url

extractDomain(url) ==
  CASE url = "https://github.com/x" -> "github.com"
    [] url = "https://github.com/y" -> "github.com"
    [] url = "https://example.org/a" -> "example.org"
    [] url = "http://constructor/x" -> "constructor"
    [] OTHER -> "other"

\* the properties an object literal inherits from Object.prototype:
\* groups[name] is truthy for them although groups has no such key
InheritedNames ==
  { "constructor", "__proto__", "hasOwnProperty", "isPrototypeOf",
    "propertyIsEnumerable", "toLocaleString", "toString", "valueOf",
    "__defineGetter__", "__defineSetter__", "__lookupGetter__", "__lookupSetter__" }

TypeError == "groups[domain].push is not a function"

\* the value of a key that is a canonical array index, -1 for any other key:
\* Object.keys lists such keys first, in ascending order
ArrayIndex(key) ==
  CASE key = "7" -> 7
    [] key = "42" -> 42
    [] OTHER -> -1

RECURSIVE InsertDesc(_, _)
\* x put behind the elements of sorted whose k is not smaller
InsertDesc(sorted, x) ==
  IF sorted = <<>> THEN <<x>>
  ELSE IF Head(sorted).k >= x.k THEN <<Head(sorted)>> \o InsertDesc(Tail(sorted), x)
  ELSE <<x>> \o sorted

RECURSIVE SortDesc(_)
\* Array.prototype.sort((a, b) => b.k - a.k): stable, descending in k
SortDesc(s) ==
  IF s = <<>> THEN <<>>
  ELSE InsertDesc(SortDesc(SubSeq(s, 1, Len(s) - 1)), s[Len(s)])

\* the elements v of a list sorted by SortDesc under the keys k
Keyed(s, ks) == [i \in DOMAIN s |-> [k |-> ks[i], v |-> s[i]]]
Unkeyed(s) == [i \in DOMAIN s |-> s[i].v]

RECURSIVE GroupLoop(_, _)
\* for (const tab of tabs): groups.keys are the own keys in insertion order
GroupLoop(groups, tabs) ==
  IF tabs = <<>> \/ groups.err # "" THEN groups
  ELSE LET tab == Head(tabs)
           domain == IF Truthy(tab, "domain") THEN tab["domain"]
                     ELSE extractDomain(tab["url"])
       IN IF domain \in DOMAIN groups.of
          THEN GroupLoop([groups EXCEPT !.of[domain] = Append(@, tab)], Tail(tabs))
          ELSE IF domain \in InheritedNames
          THEN [groups EXCEPT !.err = TypeError]
          ELSE GroupLoop(
                 [keys |-> Append(groups.keys, domain),
                  of |-> [d \in DOMAIN groups.of \cup {domain} |->
                            IF d = domain THEN <<tab>> ELSE groups.of[d]],
                  err |-> ""],
                 Tail(tabs))

\* a variant that leaves every group in the order of the list
groupTabsUnsorted(tabs) ==
  GroupLoop([keys |-> <<>>, of |-> <<>>, err |-> ""], tabs)

\* groupTabsByDomain(tabs): each group sorted newest first
groupTabsByDomain(tabs) ==
  LET groups == GroupLoop([keys |-> <<>>, of |-> <<>>, err |-> ""], tabs)
      byDate(g) == Unkeyed(SortDesc(Keyed(g, [i \in DOMAIN g |-> g[i]["dateAdded"]])))
  IN IF groups.err # "" THEN groups
     ELSE [groups EXCEPT !.of = [d \in DOMAIN groups.of |-> byDate(groups.of[d])]]

\* Object.keys(groups): array-index keys ascending, then the others in
\* insertion order
ObjectKeys(groups) ==
  LET idx == SelectSeq(groups.keys, LAMBDA d : ArrayIndex(d) >= 0)
      str == SelectSeq(groups.keys, LAMBDA d : ArrayIndex(d) < 0)
  IN Unkeyed(SortDesc(Keyed(idx, [i \in DOMAIN idx |-> 0 - ArrayIndex(idx[i])]))) \o str

\* getDomainDisplayName(domain): the table's name for a listed domain (for
\* an inherited property name the table yields that property), else the
\* first part capitalised when the name has several parts
getDomainDisplayName(domain) ==
  CASE domain = "github.com" -> "GitHub"
    [] domain \in InheritedNames -> "<Object.prototype." \o domain \o ">"
    [] domain = "example.org" -> "Example"
    [] OTHER -> domain

\* getSortedDomainGroups(tabs)
getSortedDomainGroups(tabs) ==
  LET groups == groupTabsByDomain(tabs)
      keys == ObjectKeys(groups)
      sortedDomains ==
        Unkeyed(SortDesc(Keyed(keys, [i \in DOMAIN keys |-> Len(groups.of[keys[i]])])))
  IN IF groups.err # "" THEN [err |-> groups.err, site |-> "groupTabsByDomain", value |-> NoValue]
     ELSE [err |-> "", site |-> "",
           value |-> [i \in DOMAIN sortedDomains |->
                        [domain |-> sortedDomains[i],
                         displayName |-> getDomainDisplayName(sortedDomains[i]),
                         tabs |-> groups.of[sortedDomains[i]],
                         count |-> Len(groups.of[sortedDomains[i]])]]]

-----------------------------------------------------------------------------
(* src/lib/import-export.js: full-text search.  A text is a sequence of     *)
(* characters; "´" is the combining acute accent U+0301, "í" the            *)
(* precomposed letter that NFD decomposes into "i" and the accent.  A       *)
(* string value carries its text, so that it can stand where undefined can. *)

Str(text) == [type |-> "string", text |-> text]

\* String.prototype.toLowerCase, per character
ToLowerCase(text) ==
  [i \in DOMAIN text |->
     CASE text[i] = "G" -> "g"
       [] text[i] = "I" -> "i"
       [] text[i] = "T" -> "t"
       [] OTHER -> text[i]]

RECURSIVE NormalizeNFD(_)
\* String.prototype.normalize('NFD')
NormalizeNFD(text) ==
  IF text = <<>> THEN <<>>
  ELSE (IF Head(text) = "í" THEN <<"i", "´">> ELSE <<Head(text)>>)
         \o NormalizeNFD(Tail(text))

\* .replace(/[\u0300-\u036f]/g, '')
RemoveDiacritics(text) == SelectSeq(text, LAMBDA ch : ch # "´")

RECURSIVE TrimStart(_)
TrimStart(text) ==
  IF text # <<>> /\ Head(text) = " " THEN TrimStart(Tail(text)) ELSE text

RECURSIVE TrimEnd(_)
TrimEnd(text) ==
  IF text # <<>> /\ text[Len(text)] = " " THEN TrimEnd(SubSeq(text, 1, Len(text) - 1))
  ELSE text

\* String.prototype.trim
Trim(text) == TrimEnd(TrimStart(text))

\* normalizeSearchText(text); an undefined or empty text gives ''
normalizeSearchText(text) ==
  IF text = NoValue \/ text.text = <<>> THEN Str(<<>>)
  ELSE Str(Trim(RemoveDiacritics(NormalizeNFD(ToLowerCase(text.text)))))

\* String.prototype.includes
IncludesText(str, sub) ==
  \E i \in 0..(Len(str.text) - Len(sub.text)) :
     SubSeq(str.text, i + 1, i + Len(sub.text)) = sub.text

\* tab.member, undefined when the record has no such member
Member(tab, f) == IF f \in DOMAIN tab THEN tab[f] ELSE NoValue

RECURSIVE JoinFields(_)
\* Array.prototype.join(' '): an undefined element contributes ''
JoinFields(fields) ==
  IF fields = <<>> THEN <<>>
  ELSE (IF Head(fields) = NoValue THEN <<>> ELSE Head(fields).text)
         \o (IF Len(fields) > 1 THEN <<" ">> ELSE <<>>) \o JoinFields(Tail(fields))

\* tab.labels || []
LabelsOf(tab) == IF "labels" \in DOMAIN tab THEN tab["labels"] ELSE <<>>

\* matchesQuery(tab, normalizedQuery)
matchesQuery(tab, normalizedQuery) ==
  LET searchableFields ==
        << Member(tab, "title"), Member(tab, "description"), Member(tab, "url"),
           Member(tab, "domain") >> \o LabelsOf(tab)
  IN IncludesText(normalizeSearchText(Str(JoinFields(searchableFields))), normalizedQuery)

\* !query || query.trim() === ''
BlankQuery(query) == query = NoValue \/ Trim(query.text) = <<>>

\* searchTabs(tabs, query)
searchTabs(tabs, query) ==
  IF BlankQuery(query) THEN tabs
  ELSE IF normalizeSearchText(query) = Str(<<>>) THEN tabs
  ELSE SelectSeq(tabs, LAMBDA tab : matchesQuery(tab, normalizeSearchText(query)))

\* the weights searchTabsWithRelevance adds up
TitleWeight == 10
DomainWeight == 8
LabelWeight == 6
DescriptionWeight == 4
UrlWeight == 2

\* a variant of the weights in which a url match outweighs a title match
UrlFirstScore(tab, normalizedQuery) ==
  LET hit(text) == IncludesText(normalizeSearchText(text), normalizedQuery)
  IN (IF hit(Member(tab, "title")) THEN UrlWeight ELSE 0)
     + (IF hit(Member(tab, "domain")) THEN DomainWeight ELSE 0)
     + (IF \E i \in DOMAIN LabelsOf(tab) : hit(LabelsOf(tab)[i]) THEN LabelWeight ELSE 0)
     + (IF hit(Member(tab, "description")) THEN DescriptionWeight ELSE 0)
     + (IF hit(Member(tab, "url")) THEN TitleWeight ELSE 0)

\* the score the map callback of searchTabsWithRelevance gives a tab
Score(tab, normalizedQuery) ==
  LET hit(text) == IncludesText(normalizeSearchText(text), normalizedQuery)
  IN (IF hit(Member(tab, "title")) THEN TitleWeight ELSE 0)
     + (IF hit(Member(tab, "domain")) THEN DomainWeight ELSE 0)
     + (IF \E i \in DOMAIN LabelsOf(tab) : hit(LabelsOf(tab)[i]) THEN LabelWeight ELSE 0)
     + (IF hit(Member(tab, "description")) THEN DescriptionWeight ELSE 0)
     + (IF hit(Member(tab, "url")) THEN UrlWeight ELSE 0)

\* a variant that compares the fields as they are, without normalizing them
searchTabsWithRelevanceRaw(tabs, query) ==
  IF BlankQuery(query) THEN tabs
  ELSE IF normalizeSearchText(query) = Str(<<>>) THEN tabs
  ELSE LET nq == normalizeSearchText(query)
           raw(text) == text # NoValue /\ IncludesText(text, nq)
           hits == SelectSeq(tabs, LAMBDA tab :
                     \/ raw(Member(tab, "title")) \/ raw(Member(tab, "domain"))
                     \/ raw(Member(tab, "description")) \/ raw(Member(tab, "url"))
                     \/ \E i \in DOMAIN LabelsOf(tab) : raw(LabelsOf(tab)[i]))
       IN Unkeyed(SortDesc(Keyed(hits, [i \in DOMAIN hits |-> Score(hits[i], nq)])))

\* searchTabsWithRelevance(tabs, query)
searchTabsWithRelevance(tabs, query) ==
  IF BlankQuery(query) THEN tabs
  ELSE IF normalizeSearchText(query) = Str(<<>>) THEN tabs
  ELSE LET nq == normalizeSearchText(query)
           scored == Keyed(tabs, [i \in DOMAIN tabs |-> Score(tabs[i], nq)])
       IN Unkeyed(SortDesc(SelectSeq(scored, LAMBDA item : item.k > 0)))

-----------------------------------------------------------------------------
(* the tabs-manager part of src/lib/storage.js: the tab registry *)

Uuid(n) == "uuid-" \o ToString(n)

\* the ids some record of the state carries: a fresh UUID equals none of them
UsedIds ==
  LET idsOf(s) == {s[i]["id"] : i \in {j \in DOMAIN s : "id" \in DOMAIN s[j]}}
  IN (UNION {idsOf(chromeStorage[a].tabs) : a \in Modes})
       \cup (UNION {idsOf(pages[c].savedTabs) : c \in Contexts})
       \cup (IF exported = Null THEN {} ELSE idsOf(exported.data.tabs.items))
       \cup {inflight[p].newTab.id :
                p \in {q \in DOMAIN inflight : "newTab" \in DOMAIN inflight[q]}}

RECURSIVE NthFresh(_, _)
NthFresh(k, from) ==
  IF Uuid(from) \in UsedIds THEN NthFresh(k, from + 1)
  ELSE IF k = 1 THEN Uuid(from) ELSE NthFresh(k - 1, from + 1)

\* generateId: crypto.randomUUID(), the k-th id the running operation draws.
\* The result differs from every id in use and from the ones drawn before;
\* the least such id stands for all of them.
generateId(k) == NthFresh(k, 1)

\* the record saveTab builds from tabData
NewTab(tabData, id) ==
  [id |-> id,
   url |-> tabData.url,
   domain |-> extractDomain(tabData.url),
   title |-> tabData.title,
   description |-> OrElse(tabData, "description", ""),
   labels |-> IF "labels" \in DOMAIN tabData THEN tabData["labels"] ELSE <<>>,
   dateAdded |-> now,
   favicon |-> OrElse(tabData, "favicon", "")]

\* a variant that refuses a url some stored tab already has
saveTabUnlessStored(m, c, tabData) ==
  LET rest(m1) ==
        LET tabs == GotList(m1, c, "tabs")
            m2 == IF m1.err # "" THEN m1 ELSE [m1 EXCEPT !.ids = @ + 1]
            newTab == NewTab(tabData, generateId(m2.ids))
        IN IF m1.err # "" THEN m1
           ELSE IF \E i \in DOMAIN tabs : tabs[i]["url"] = tabData.url
           THEN Throw(m2, "URL already saved")
           ELSE Return(set(m2, c, [tabs |-> Append(tabs, newTab)]), newTab)
  IN rest(get(m, c))

\* saveTab(tabData)
saveTab(m, c, tabData) ==
  LET rest(m1) ==
        LET tabs == GotList(m1, c, "tabs")
            m2 == IF m1.err # "" THEN m1 ELSE [m1 EXCEPT !.ids = @ + 1]
            newTab == NewTab(tabData, generateId(m2.ids))
        IN Return(set(m2, c, [tabs |-> Append(tabs, newTab)]), newTab)
  IN rest(get(m, c))

\* saveTab up to its second await: the collection is read, the record is
\* built and pushed onto the caller's copy
saveTabRead(m, c, tabData) ==
  LET rest(m1) ==
        LET tabs == GotList(m1, c, "tabs")
            m2 == IF m1.err # "" THEN m1 ELSE [m1 EXCEPT !.ids = @ + 1]
            newTab == NewTab(tabData, generateId(m2.ids))
        IN Return(m2, [tabs |-> Append(tabs, newTab), newTab |-> newTab])
  IN rest(get(m, c))

\* a variant whose write appends to the collection as it is stored now
saveTabWriteOntoStored(m, c, tabs, newTab) ==
  LET rest(m1) ==
        Return(set(m1, c, [tabs |-> Append(GotList(m1, c, "tabs"), newTab)]), newTab)
  IN rest(getStorageArea(m, c))

\* saveTab from its second await: the caller's copy is written, the record
\* returned
saveTabWrite(m, c, tabs, newTab) ==
  Return(set(m, c, [tabs |-> tabs]), newTab)

\* a variant that adds a record when no stored tab has the id
updateTabOrInsert(m, c, id, updates) ==
  LET rest(m1) ==
        LET tabs == GotList(m1, c, "tabs")
            hits == {i \in DOMAIN tabs : HasId(tabs[i], id)}
            index == CHOOSE i \in hits : \A j \in hits : i <= j
            base == IF hits = {} THEN [id |-> id] ELSE tabs[index]
            updated == Spread(Spread(base, updates), [dateModified |-> now])
        IN IF m1.err # "" THEN m1
           ELSE IF hits = {} THEN Return(set(m1, c, [tabs |-> Append(tabs, updated)]), updated)
           ELSE Return(set(m1, c, [tabs |-> [tabs EXCEPT ![index] = updated]]), updated)
  IN rest(get(m, c))

\* updateTab(id, updates)
updateTab(m, c, id, updates) ==
  LET rest(m1) ==
        LET tabs == GotList(m1, c, "tabs")
            hits == {i \in DOMAIN tabs : HasId(tabs[i], id)}
            index == CHOOSE i \in hits : \A j \in hits : i <= j
            updated == Spread(Spread(tabs[index], updates), [dateModified |-> now])
        IN IF m1.err # "" THEN m1
           ELSE IF hits = {} THEN Throw(m1, NotFoundError)
           ELSE Return(set(m1, c, [tabs |-> [tabs EXCEPT ![index] = updated]]), updated)
  IN rest(get(m, c))

\* a variant that removes the first record with the id only
deleteTabFirstOnly(m, c, id) ==
  LET rest(m1) ==
        IF m1.err # "" THEN m1
        ELSE LET tabs == GotList(m1, c, "tabs")
                 hits == {i \in DOMAIN tabs : HasId(tabs[i], id)}
                 index == CHOOSE i \in hits : \A j \in hits : i <= j
                 filtered == IF hits = {} THEN tabs
                             ELSE SubSeq(tabs, 1, index - 1)
                                    \o SubSeq(tabs, index + 1, Len(tabs))
             IN set(m1, c, [tabs |-> filtered])
  IN rest(get(m, c))

\* deleteTab(id)
deleteTab(m, c, id) ==
  LET rest(m1) ==
        LET tabs == GotList(m1, c, "tabs")
            filtered == SelectSeq(tabs, LAMBDA t : ~HasId(t, id))
        IN set(m1, c, [tabs |-> filtered])
  IN rest(get(m, c))

\* getTab(id): the first stored tab with the id, or undefined
getTab(m, c, id) ==
  LET rest(m1) ==
        LET tabs == GotList(m1, c, "tabs")
            hits == {i \in DOMAIN tabs : HasId(tabs[i], id)}
        IN Return(m1, IF hits = {} THEN NoValue
                      ELSE tabs[CHOOSE i \in hits : \A j \in hits : i <= j])
  IN rest(get(m, c))

\* a variant that deletes the record before it asks the host to open it
openTabDeleteFirst(m, c, id, deleteAfter) ==
  LET rest(m1) ==
        LET tab == m1.ret
            m2 == IF tab # NoValue /\ deleteAfter THEN deleteTab(m1, c, id) ELSE m1
            m3 == IF tab = NoValue THEN m2 ELSE HostCreate(m2, tab["url"])
        IN Return(m3, tab)
  IN rest(getTab(m, c, id))

\* openTab(id, deleteAfter)
openTab(m, c, id, deleteAfter) ==
  LET rest(m1) ==
        LET tab == m1.ret
            m2 == IF tab = NoValue THEN m1 ELSE HostCreate(m1, tab["url"])
            m3 == IF tab # NoValue /\ deleteAfter THEN deleteTab(m2, c, id) ELSE m2
        IN Return(m3, tab)
  IN rest(getTab(m, c, id))

RECURSIVE CreateLoop(_, _)
\* for (const tab of domainTabs) await chrome.tabs.create({ url: tab.url })
CreateLoop(m, domainTabs) ==
  IF domainTabs = <<>> \/ m.err # "" THEN m
  ELSE CreateLoop(HostCreate(m, Head(domainTabs)["url"]), Tail(domainTabs))

\* a variant that selects the tabs by the domain of their url
openAllInDomainByUrl(m, c, domain) ==
  LET rest(m1) ==
        LET tabs == GotList(m1, c, "tabs")
            domainTabs == SelectSeq(tabs, LAMBDA t : extractDomain(t["url"]) = domain)
        IN IF m1.err # "" THEN m1
           ELSE Return(CreateLoop(m1, domainTabs), Len(domainTabs))
  IN rest(get(m, c))

\* openAllInDomain(domain)
openAllInDomain(m, c, domain) ==
  LET rest(m1) ==
        LET tabs == GotList(m1, c, "tabs")
            domainTabs == SelectSeq(tabs, LAMBDA t :
                                      "domain" \in DOMAIN t /\ t["domain"] = domain)
        IN IF m1.err # "" THEN m1
           ELSE Return(CreateLoop(m1, domainTabs), Len(domainTabs))
  IN rest(get(m, c))

\* getAllTabs()
getAllTabs(m, c) ==
  LET rest(m1) == Return(m1, GotList(m1, c, "tabs"))
  IN rest(get(m, c))

\* deleteAllInDomain(domain)
deleteAllInDomain(m, c, domain) ==
  LET rest(m1) ==
        LET tabs == GotList(m1, c, "tabs")
            filtered == SelectSeq(tabs, LAMBDA t :
                                    ~("domain" \in DOMAIN t /\ t["domain"] = domain))
        IN Return(set(m1, c, [tabs |-> filtered]), Len(tabs) - Len(filtered))
  IN rest(get(m, c))

\* clearAllTabs()
clearAllTabs(m, c) == set(m, c, [tabs |-> <<>>])

-----------------------------------------------------------------------------
(* src/lib/storage.js: labels *)

\* getAllLabels()
\* a variant in which a custom label replaces the predefined label of its id
getAllLabelsOverridden(m, c) ==
  LET rest(m1) ==
        IF m1.err # "" THEN m1
        ELSE LET customLabels == GotList(m1, c, "customLabels")
                 kept == SelectSeq(PREDEFINED_LABELS, LAMBDA l :
                           \A i \in DOMAIN customLabels : ~HasId(customLabels[i], l.id))
             IN Return(m1, kept \o customLabels)
  IN rest(get(m, c))

\* getAllLabels()
getAllLabels(m, c) ==
  LET rest(m1) == Return(m1, PREDEFINED_LABELS \o GotList(m1, c, "customLabels"))
  IN rest(get(m, c))

\* addCustomLabel(name, color)
addCustomLabel(m, c, name, color) ==
  LET rest(m1) ==
        LET customLabels == GotList(m1, c, "customLabels")
            newLabel == [id |-> "custom-" \o ToString(now), name |-> name,
                         color |-> color, isCustom |-> TRUE]
        IN Return(set(m1, c, [customLabels |-> Append(customLabels, newLabel)]), newLabel)
  IN rest(get(m, c))

\* deleteCustomLabel(labelId)
deleteCustomLabel(m, c, labelId) ==
  LET rest(m1) ==
        LET customLabels == GotList(m1, c, "customLabels")
            filtered == SelectSeq(customLabels, LAMBDA l : ~HasId(l, labelId))
        IN set(m1, c, [customLabels |-> filtered])
  IN rest(get(m, c))

-----------------------------------------------------------------------------
(* src/lib/import-export.js *)

\* new Date(t).toISOString(), for the first second of the epoch
ISOString(t) ==
  "1970-01-01T00:00:00."
    \o (IF t < 10 THEN "00" ELSE IF t < 100 THEN "0" ELSE "") \o ToString(t) \o "Z"

\* exportToJSON()
exportToJSON(m, c) ==
  LET rest2(m1, m2) ==
        LET tabs == GotList(m1, c, "tabs")
            customLabels == GotList(m2, c, "customLabels")
            settings == GotSettings(m2)
        IN Return(getSettings(m2),
                  [version |-> "1.0.0",
                   exportDate |-> ISOString(now),
                   data |-> [tabs |-> Arr(tabs),
                             customLabels |-> Arr(customLabels),
                             settings |-> settings]])
      rest1(m1) == rest2(m1, get(m1, c))
  IN rest1(get(m, c))

RECURSIVE TabErrors(_, _)
\* the forEach over data.data.tabs, from the tab at position i on; the
\* message carries the zero-based index
TabErrors(tabs, i) ==
  IF i > Len(tabs) THEN <<>>
  ELSE (IF ~Truthy(tabs[i], "url")
        THEN <<"Tab at index " \o ToString(i - 1) \o " missing \"url\"">> ELSE <<>>)
       \o (IF ~Truthy(tabs[i], "title")
           THEN <<"Tab at index " \o ToString(i - 1) \o " missing \"title\"">> ELSE <<>>)
       \o TabErrors(tabs, i + 1)

\* what tab.url throws when the element of data.data.tabs is null
NullTabError == "Cannot read properties of null (reading 'url')"

\* data.data.tabs is an array with a null element
HasNullTab(data) ==
  /\ data # Null
  /\ "data" \in DOMAIN data
  /\ "tabs" \in DOMAIN data["data"]
  /\ data["data"]["tabs"].array
  /\ \E i \in DOMAIN data["data"]["tabs"].items : data["data"]["tabs"].items[i] = Null

\* validateImportData(data): the object it returns, or the error the
\* forEach callback throws
validateImportData(data) ==
  IF data = Null THEN [valid |-> FALSE, errors |-> <<"No data provided">>]
  ELSE IF "data" \notin DOMAIN data
  THEN [valid |-> FALSE, errors |-> <<"Missing \"data\" property">>]
  ELSE IF HasNullTab(data) THEN [threw |-> NullTabError]
  ELSE LET d == data["data"]
           tabErrors == IF "tabs" \notin DOMAIN d \/ ~d["tabs"].array
                        THEN <<"Missing or invalid \"tabs\" array">>
                        ELSE TabErrors(d["tabs"].items, 1)
           labelErrors == IF /\ "customLabels" \in DOMAIN d
                             /\ d["customLabels"] # Null
                             /\ ~d["customLabels"].array
                          THEN <<"Invalid \"customLabels\" - must be an array">>
                          ELSE <<>>
           errors == tabErrors \o labelErrors
       IN [valid |-> errors = <<>>, errors |-> errors]

\* data.data.customLabels || []
DocLabels(data) ==
  IF "customLabels" \in DOMAIN data["data"] /\ data["data"]["customLabels"] # Null
  THEN data["data"]["customLabels"].items ELSE <<>>

RECURSIVE Join(_, _)
\* errors.join(sep)
Join(strs, sep) ==
  IF strs = <<>> THEN ""
  ELSE IF Len(strs) = 1 THEN strs[1]
  ELSE strs[1] \o sep \o Join(Tail(strs), sep)

RECURSIVE EnsureIds(_, _)
\* newTabs.map(tab => ({...tab, id: tab.id || crypto.randomUUID(),
\* dateAdded: tab.dateAdded || Date.now()})); drawn counts the UUIDs drawn
EnsureIds(newTabs, drawn) ==
  IF newTabs = <<>> THEN <<>>
  ELSE LET tab == Head(newTabs)
           keepsId == Truthy(tab, "id")
           id == IF keepsId THEN tab["id"] ELSE generateId(drawn + 1)
           dateAdded == IF "dateAdded" \in DOMAIN tab /\ tab["dateAdded"] # 0
                        THEN tab["dateAdded"] ELSE now
       IN <<Spread(tab, [id |-> id, dateAdded |-> dateAdded])>>
          \o EnsureIds(Tail(newTabs), IF keepsId THEN drawn ELSE drawn + 1)

\* a variant without the filter: every imported tab is new
newTabsOfUnfiltered(importedTabs, existingTabs) == importedTabs

\* importedTabs.filter(t => !existingUrls.has(t.url))
newTabsOf(importedTabs, existingTabs) ==
  LET existingUrls == {existingTabs[i]["url"] : i \in DOMAIN existingTabs}
  IN SelectSeq(importedTabs, LAMBDA t : t["url"] \notin existingUrls)

\* importedLabels.filter(l => !existingLabelIds.has(l.id))
newLabelsOf(importedLabels, existingLabels) ==
  LET existingLabelIds == {existingLabels[i]["id"] : i \in DOMAIN existingLabels}
  IN SelectSeq(importedLabels, LAMBDA l : l["id"] \notin existingLabelIds)

\* importFromJSON past the validation
\* a variant whose merge reports the tabs of the document as imported
importValidatedCountingDocument(m, c, data, mode) ==
  LET importedTabs == data["data"]["tabs"].items
      importedLabels == DocLabels(data)
      merge2(m1, m2) ==
        LET existingTabs == GotList(m1, c, "tabs")
            existingLabels == GotList(m2, c, "customLabels")
            tabsToAdd == EnsureIds(newTabsOf(importedTabs, existingTabs), 0)
            newLabels == newLabelsOf(importedLabels, existingLabels)
        IN Return(set(set(m2, c, [tabs |-> existingTabs \o tabsToAdd]),
                      c, [customLabels |-> existingLabels \o newLabels]),
                  [tabsImported |-> Len(importedTabs),
                   tabsSkipped |-> 0,
                   labelsImported |-> Len(importedLabels)])
      merge1(m1) == merge2(m1, get(m1, c))
  IN IF mode = "replace"
     THEN Return(set(set(m, c, [tabs |-> importedTabs]),
                     c, [customLabels |-> importedLabels]),
                 [tabsImported |-> Len(importedTabs),
                  tabsSkipped |-> 0,
                  labelsImported |-> Len(importedLabels)])
     ELSE merge1(get(m, c))

\* importFromJSON(data, mode) past its validation
importValidated(m, c, data, mode) ==
  LET importedTabs == data["data"]["tabs"].items
      importedLabels == DocLabels(data)
      \* replace
      replaced == set(set(m, c, [tabs |-> importedTabs]),
                      c, [customLabels |-> importedLabels])
      \* merge
      merge2(m1, m2) ==
        LET existingTabs == GotList(m1, c, "tabs")
            existingLabels == GotList(m2, c, "customLabels")
            tabsToAdd == EnsureIds(newTabsOf(importedTabs, existingTabs), 0)
            newLabels == newLabelsOf(importedLabels, existingLabels)
        IN Return(set(set(m2, c, [tabs |-> existingTabs \o tabsToAdd]),
                      c, [customLabels |-> existingLabels \o newLabels]),
                  [tabsImported |-> Len(tabsToAdd),
                   tabsSkipped |-> Len(importedTabs) - Len(tabsToAdd),
                   labelsImported |-> Len(newLabels)])
      merge1(m1) == merge2(m1, get(m1, c))
  IN IF mode = "replace"
     THEN Return(replaced, [tabsImported |-> Len(importedTabs),
                            tabsSkipped |-> 0,
                            labelsImported |-> Len(importedLabels)])
     ELSE merge1(get(m, c))

\* a variant that imports the well-formed tabs of a rejected document
\* before it throws
importFromJSONValidSubset(m, c, data, mode) ==
  LET validation == validateImportData(data)
      message == "Invalid import data: " \o Join(validation.errors, ", ")
      hasTabs == /\ data # Null
                 /\ "data" \in DOMAIN data
                 /\ "tabs" \in DOMAIN data["data"]
                 /\ data["data"]["tabs"].array
      subset == [data |-> [tabs |-> Arr(SelectSeq(data["data"]["tabs"].items,
                                          LAMBDA t : Truthy(t, "url") /\ Truthy(t, "title")))]]
  IN IF validation.valid THEN importValidated(m, c, data, mode)
     ELSE IF hasTabs THEN Throw(importValidated(m, c, subset, mode), message)
     ELSE Throw(m, message)

\* importFromJSON(data, mode)
importFromJSON(m, c, data, mode) ==
  LET validation == validateImportData(data)
  IN IF "threw" \in DOMAIN validation THEN Throw(m, validation.threw)
     ELSE IF ~validation.valid
     THEN Throw(m, "Invalid import data: " \o Join(validation.errors, ", "))
     ELSE importValidated(m, c, data, mode)

-----------------------------------------------------------------------------
(* src/popup/popup.js and src/options/options.js: page handlers.  A handler *)
(* catches what its calls throw; err is then the error it reported.         *)

\* an assignment to a module-level variable of page c
Assign(m, c, var, value) ==
  IF m.err # "" THEN m ELSE [m EXCEPT !.page[c][var] = value]

\* init(): the page loads its snapshots (the full-page view calls them
\* allTabs and allLabels and reads no settings); nothing is assigned unless
\* every read succeeded
init(m, c) ==
  LET rest2(m1, m2) ==
        LET tabsData == m1.ret
            labelsData == m2.ret
            m3 == IF c = "tabs" THEN m2 ELSE getSettings(m2)
        IN Assign(Assign(m3, c, "savedTabs", tabsData), c, "allLabels", labelsData)
      rest1(m1) == rest2(m1, getAllLabels(m1, c))
  IN rest1(getAllTabs(m, c))

\* tab.labels.includes(labelId)
Includes(labels, labelId) == \E i \in DOMAIN labels : labels[i] = labelId

RECURSIVE CascadeLoop(_, _, _, _)
\* for (const tab of savedTabs) if (tab.labels.includes(labelId))
\*   await updateTab(tab.id, {labels: tab.labels.filter(l => l !== labelId)})
CascadeLoop(m, c, snapshot, labelId) ==
  IF snapshot = <<>> \/ m.err # "" THEN m
  ELSE LET tab == Head(snapshot)
       IN CascadeLoop(IF Includes(tab["labels"], labelId)
                      THEN updateTab(m, c, tab["id"],
                             [labels |-> SelectSeq(tab["labels"], LAMBDA l : l # labelId)])
                      ELSE m,
                      c, Tail(snapshot), labelId)

\* handleDeleteLabel(labelId), confirmed by the user.  The popup reloads
\* allLabels before the loop, the options page after it.
handleDeleteLabel(m, c, labelId) ==
  LET assignLabels(n) == Assign(n, c, "allLabels", n.ret)
      reloadLabels(n) == assignLabels(getAllLabels(n, c))
      assignTabs(n) == Assign(n, c, "savedTabs", n.ret)
      reloadTabs(n) == assignTabs(getAllTabs(n, c))
      loop(n) == CascadeLoop(n, c, m.page[c].savedTabs, labelId)
  IN IF c = "popup"
     THEN reloadTabs(loop(reloadLabels(deleteCustomLabel(m, c, labelId))))
     ELSE reloadTabs(reloadLabels(loop(deleteCustomLabel(m, c, labelId))))

\* handleSaveTab() of the popup
handleSaveTab(m, c, tabData) ==
  LET assignTabs(n) == Assign(n, c, "savedTabs", n.ret)
  IN assignTabs(getAllTabs(saveTab(m, c, tabData), c))

\* handleImport(event): readJSONFile has parsed the file into data
handleImport(m, c, data, mode) ==
  LET assignTabs(n) == Assign(n, c, "savedTabs", n.ret)
      assignLabels(n) == Assign(n, c, "allLabels", n.ret)
  IN assignLabels(getAllLabels(assignTabs(getAllTabs(importFromJSON(m, c, data, mode), c)), c))

\* the popup's document as it loads: nothing read yet, the Save button
\* enabled
NewPopup ==
  [savedTabs |-> <<>>, allLabels |-> <<>>, currentTab |-> Null, saveBtnDisabled |-> FALSE]

\* elements.saveBtn.disabled = v
SetSaveBtnDisabled(m, v) == [m EXCEPT !.page["popup"].saveBtnDisabled = v]

\* savedTabs.some(t => t.url === currentTab.url)
SomeSavedHasUrl(m) ==
  \E i \in DOMAIN m.page["popup"].savedTabs :
     m.page["popup"].savedTabs[i]["url"] = m.page["popup"].currentTab["url"]

\* renderCurrentTab(): disables Save without a current tab or when a tab of
\* the snapshot has its url; never enables it
renderCurrentTab(m) ==
  IF m.err # "" THEN m
  ELSE IF m.page["popup"].currentTab = Null THEN SetSaveBtnDisabled(m, TRUE)
  ELSE IF SomeSavedHasUrl(m) THEN SetSaveBtnDisabled(m, TRUE)
  ELSE m

\* the popup opens: a new document runs init(); currentTabInfo is what
\* getCurrentTabInfo resolved to (null when the query found or returned
\* nothing)
popupInit(m, currentTabInfo) ==
  LET rest(m1) == renderCurrentTab(Assign(m1, "popup", "currentTab", currentTabInfo))
  IN rest(init([m EXCEPT !.page["popup"] = NewPopup], "popup"))

\* handleSaveTab() with its button: disabled on entry, enabled again only
\* by the catch block
popupHandleSaveTab(m) ==
  IF m.page["popup"].currentTab = Null THEN m
  ELSE LET cur == m.page["popup"].currentTab
           tabData == [url |-> cur["url"], title |-> cur["title"],
                       description |-> "", labels |-> <<>>, favicon |-> ""]
           caught(n) == IF n.err # "" THEN SetSaveBtnDisabled(n, FALSE) ELSE n
       IN caught(handleSaveTab(SetSaveBtnDisabled(m, TRUE), "popup", tabData))

\* handleDeleteTab(tabId) of the popup
handleDeleteTab(m, tabId) ==
  LET assignTabs(n) == Assign(n, "popup", "savedTabs", n.ret)
      enable(n) ==
        IF n.err = "" /\ n.page["popup"].currentTab # Null /\ ~SomeSavedHasUrl(n)
        THEN SetSaveBtnDisabled(n, FALSE) ELSE n
  IN enable(assignTabs(getAllTabs(deleteTab(m, "popup", tabId), "popup")))

\* handleOpenTab(tabId, deleteAfter) of the popup
handleOpenTab(m, tabId, deleteAfter) ==
  LET assignTabs(n) == Assign(n, "popup", "savedTabs", n.ret)
      rest(m1) == IF deleteAfter THEN assignTabs(getAllTabs(m1, "popup")) ELSE m1
  IN rest(openTab(m, "popup", tabId, deleteAfter))

\* handleClearAll() of the popup, confirmed by the user
handleClearAll(m) ==
  LET assignLabels(n) == Assign(n, "popup", "allLabels", n.ret)
      rest(m1) ==
        renderCurrentTab(
          assignLabels(getAllLabels(Assign(m1, "popup", "savedTabs", <<>>), "popup")))
  IN rest(set(clearAllTabs(m, "popup"), "popup", [customLabels |-> <<>>]))

\* the labels whose delete button page c shows: the custom ones of allLabels
DeletableLabels(c) ==
  LET ls == pages[c].allLabels IN {ls[i].id : i \in {j \in DOMAIN ls : ls[j].isCustom}}

\* the label chips page c shows
ShownLabels(c) ==
  LET ls == pages[c].allLabels IN {ls[i].id : i \in DOMAIN ls}

-----------------------------------------------------------------------------
(* State *)

\* the callers whose saveTab calls may overlap, and a caller with no call
Callers == {1, 2}
Idle == [pc |-> "idle"]

Init ==
  /\ chromeStorage = [local |-> EmptyArea, sync |-> EmptyArea]
  /\ cachedStorageMode = [c \in Contexts |-> NULL]
  /\ pages = [c \in Contexts |->
                IF c = "popup" THEN NewPopup
                ELSE [savedTabs |-> <<>>, allLabels |-> <<>>]]
  /\ now = 1
  /\ exported = Null
  /\ lastCall = [op |-> "none"]
  /\ lastResult = [err |-> "", site |-> "", value |-> NoValue]
  /\ inflight = [p \in Callers |-> Idle]
  /\ browserTabs = <<>>

\* what an operation that ended in machine m leaves behind
Commit(m) ==
  /\ chromeStorage' = m.st
  /\ cachedStorageMode' = m.cache
  /\ pages' = m.page

\* the storageMode of the settings persisted in the local area
PersistedMode(st) ==
  IF "settings" \in st.local.present THEN st.local.settings.storageMode ELSE "local"

\* the list get(key) resolves to in context c, given the areas and caches
ViewList(st, cache, c, key) ==
  LET a == IF cache[c] = NULL THEN PersistedMode(st) ELSE cache[c]
  IN IF key = "tabs" THEN st[a].tabs ELSE st[a].customLabels

\* the tabs and customLabels the two areas hold
StoredData(st) ==
  [a \in Modes |-> [tabs |-> st[a].tabs, customLabels |-> st[a].customLabels]]

\* what getSettings resolves to
ViewSettings(st) ==
  IF "settings" \in st.local.present
  THEN Spread(DEFAULT_SETTINGS, st.local.settings) ELSE DEFAULT_SETTINGS

\* the failure index names a call the operation issued
FailureHappens(m) == m.fail = 0 \/ m.err = HostError

Fits(m) ==
  \A a \in Modes : Len(m.st[a].tabs) <= MaxTabs /\ Len(m.st[a].customLabels) <= MaxLabels

-----------------------------------------------------------------------------
(* Actions *)

\* the clock advances between operations
Tick ==
  /\ now < MaxClock
  /\ now' = now + 1
  /\ lastCall' = [op |-> "tick"]
  /\ lastResult' = [err |-> "", site |-> "", value |-> NoValue]
  /\ UNCHANGED <<chromeStorage, cachedStorageMode, pages, exported, inflight, browserTabs>>

\* the background worker's onInstalled listener
InitializeStorage(fail) ==
  \E m \in {initializeStorage(Begin(fail))} :
     /\ FailureHappens(m)
     /\ Commit(m)
     /\ lastCall' = [op |-> "initializeStorage"]
     /\ lastResult' = Outcome(m)
     /\ UNCHANGED <<now, exported, inflight, browserTabs>>

SaveTab(c, tabData, fail) ==
  \E m \in {saveTab(Begin(fail), c, tabData)} :
     /\ FailureHappens(m)
     /\ Fits(m)
     /\ Commit(m)
     /\ lastCall' = [op |-> "saveTab", ctx |-> c, tabData |-> tabData]
     /\ lastResult' = Outcome(m)
     /\ UNCHANGED <<now, exported, inflight, browserTabs>>

\* caller p's saveTab runs until it awaits set
SaveTabRead(p, c, tabData, fail) ==
  /\ inflight[p].pc = "idle"
  /\ \E m \in {saveTabRead(Begin(fail), c, tabData)} :
       /\ FailureHappens(m)
       /\ Commit(m)
       /\ inflight' = [inflight EXCEPT ![p] =
             IF m.err # "" THEN [pc |-> "done", ctx |-> c, err |-> m.err]
             ELSE [pc |-> "awaitSet", ctx |-> c, tabs |-> m.ret.tabs,
                   newTab |-> m.ret.newTab, overtakenBy |-> {}]]
       /\ lastCall' = [op |-> "saveTab:get", caller |-> p, ctx |-> c,
                       tabData |-> tabData]
       /\ lastResult' = [err |-> m.err, site |-> m.site, value |-> NoValue]
       /\ UNCHANGED <<now, exported, browserTabs>>

\* caller p's saveTab resumes, writes and returns; overtakenBy of a caller
\* still waiting records that p wrote after that caller had read
SaveTabWrite(p, fail) ==
  /\ inflight[p].pc = "awaitSet"
  /\ \E m \in {saveTabWrite(Begin(fail), inflight[p].ctx, inflight[p].tabs,
                               inflight[p].newTab)} :
       /\ FailureHappens(m)
       /\ Fits(m)
       /\ Commit(m)
       /\ inflight' = [q \in Callers |->
             IF q = p
             THEN [pc |-> "done", ctx |-> inflight[p].ctx, err |-> m.err,
                   tabs |-> inflight[p].tabs, newTab |-> inflight[p].newTab,
                   overtakenBy |-> inflight[p].overtakenBy]
             ELSE IF inflight[q].pc = "awaitSet" /\ m.err = ""
             THEN [inflight[q] EXCEPT !.overtakenBy = @ \cup {p}]
             ELSE inflight[q]]
       /\ lastCall' = [op |-> "saveTab:set", caller |-> p, ctx |-> inflight[p].ctx]
       /\ lastResult' = Outcome(m)
       /\ UNCHANGED <<now, exported, browserTabs>>

\* the user opens the popup on a browser tab
PopupOpen(currentTabInfo, fail) ==
  \E m \in {popupInit(Begin(fail), currentTabInfo)} :
     /\ FailureHappens(m)
     /\ Commit(m)
     /\ lastCall' = [op |-> "popup.init", currentTab |-> currentTabInfo]
     /\ lastResult' = Outcome(m)
     /\ UNCHANGED <<now, exported, inflight, browserTabs>>

\* a click on the enabled Save button
PopupSave(fail) ==
  /\ ~pages["popup"].saveBtnDisabled
  /\ \E m \in {popupHandleSaveTab(Begin(fail))} :
       /\ FailureHappens(m)
       /\ Fits(m)
       /\ Commit(m)
       /\ lastCall' = [op |-> "popup.handleSaveTab",
                       currentTab |-> pages["popup"].currentTab]
       /\ lastResult' = Outcome(m)
       /\ UNCHANGED <<now, exported, inflight, browserTabs>>

\* a click on the delete button of a listed tab
PopupDelete(tabId, fail) ==
  /\ \E i \in DOMAIN pages["popup"].savedTabs : HasId(pages["popup"].savedTabs[i], tabId)
  /\ \E m \in {handleDeleteTab(Begin(fail), tabId)} :
       /\ FailureHappens(m)
       /\ Commit(m)
       /\ lastCall' = [op |-> "popup.handleDeleteTab", id |-> tabId]
       /\ lastResult' = Outcome(m)
       /\ UNCHANGED <<now, exported, inflight, browserTabs>>

\* a click on the open or the open-and-remove button of a listed tab
PopupOpenTab(tabId, deleteAfter, fail) ==
  /\ \E i \in DOMAIN pages["popup"].savedTabs : HasId(pages["popup"].savedTabs[i], tabId)
  /\ \E m \in {handleOpenTab(Begin(fail), tabId, deleteAfter)} :
       /\ FailureHappens(m)
       /\ Len(m.opened) <= MaxOpened
       /\ Commit(m)
       /\ browserTabs' = m.opened
       /\ lastCall' = [op |-> "popup.handleOpenTab", id |-> tabId,
                       deleteAfter |-> deleteAfter]
       /\ lastResult' = Outcome(m)
       /\ UNCHANGED <<now, exported, inflight>>

\* Clear All, confirmed
PopupClearAll(fail) ==
  \E m \in {handleClearAll(Begin(fail))} :
     /\ FailureHappens(m)
     /\ Commit(m)
     /\ lastCall' = [op |-> "popup.handleClearAll"]
     /\ lastResult' = Outcome(m)
     /\ UNCHANGED <<now, exported, inflight, browserTabs>>

OpenTab(c, id, deleteAfter, fail) ==
  \E m \in {openTab(Begin(fail), c, id, deleteAfter)} :
     /\ FailureHappens(m)
     /\ Len(m.opened) <= MaxOpened
     /\ Commit(m)
     /\ browserTabs' = m.opened
     /\ lastCall' = [op |-> "openTab", ctx |-> c, id |-> id, deleteAfter |-> deleteAfter]
     /\ lastResult' = Outcome(m)
     /\ UNCHANGED <<now, exported, inflight>>

OpenAllInDomain(c, domain, fail) ==
  \E m \in {openAllInDomain(Begin(fail), c, domain)} :
     /\ FailureHappens(m)
     /\ Len(m.opened) <= MaxOpened
     /\ Commit(m)
     /\ browserTabs' = m.opened
     /\ lastCall' = [op |-> "openAllInDomain", ctx |-> c, domain |-> domain]
     /\ lastResult' = Outcome(m)
     /\ UNCHANGED <<now, exported, inflight>>

\* the user closes the browser tabs that were opened
CloseBrowserTabs ==
  /\ browserTabs # <<>>
  /\ browserTabs' = <<>>
  /\ lastCall' = [op |-> "closeBrowserTabs"]
  /\ lastResult' = [err |-> "", site |-> "", value |-> NoValue]
  /\ UNCHANGED <<chromeStorage, cachedStorageMode, pages, now, exported, inflight>>

UpdateSettings(c, updates, fail) ==
  \E m \in {updateSettings(Begin(fail), c, updates)} :
     /\ FailureHappens(m)
     /\ Commit(m)
     /\ lastCall' = [op |-> "updateSettings", ctx |-> c, updates |-> updates,
                     from |-> PersistedMode(chromeStorage)]
     /\ lastResult' = Outcome(m)
     /\ UNCHANGED <<now, exported, inflight, browserTabs>>

UpdateTab(c, id, updates, fail) ==
  \E m \in {updateTab(Begin(fail), c, id, updates)} :
     /\ FailureHappens(m)
     /\ Commit(m)
     /\ lastCall' = [op |-> "updateTab", ctx |-> c, id |-> id, updates |-> updates]
     /\ lastResult' = Outcome(m)
     /\ UNCHANGED <<now, exported, inflight, browserTabs>>

DeleteTab(c, id, fail) ==
  \E m \in {deleteTab(Begin(fail), c, id)} :
     /\ FailureHappens(m)
     /\ Commit(m)
     /\ lastCall' = [op |-> "deleteTab", ctx |-> c, id |-> id]
     /\ lastResult' = Outcome(m)
     /\ UNCHANGED <<now, exported, inflight, browserTabs>>

DeleteAllInDomain(c, domain, fail) ==
  \E m \in {deleteAllInDomain(Begin(fail), c, domain)} :
     /\ FailureHappens(m)
     /\ Commit(m)
     /\ lastCall' = [op |-> "deleteAllInDomain", ctx |-> c, domain |-> domain]
     /\ lastResult' = Outcome(m)
     /\ UNCHANGED <<now, exported, inflight, browserTabs>>

ClearAllTabs(c, fail) ==
  \E m \in {clearAllTabs(Begin(fail), c)} :
     /\ FailureHappens(m)
     /\ Commit(m)
     /\ lastCall' = [op |-> "clearAllTabs", ctx |-> c]
     /\ lastResult' = Outcome(m)
     /\ UNCHANGED <<now, exported, inflight, browserTabs>>

AddCustomLabel(c, name, color, fail) ==
  \E m \in {addCustomLabel(Begin(fail), c, name, color)} :
     /\ FailureHappens(m)
     /\ Fits(m)
     /\ Commit(m)
     /\ lastCall' = [op |-> "addCustomLabel", ctx |-> c, name |-> name]
     /\ lastResult' = Outcome(m)
     /\ UNCHANGED <<now, exported, inflight, browserTabs>>

DeleteCustomLabel(c, labelId, fail) ==
  \E m \in {deleteCustomLabel(Begin(fail), c, labelId)} :
     /\ FailureHappens(m)
     /\ Commit(m)
     /\ lastCall' = [op |-> "deleteCustomLabel", ctx |-> c, labelId |-> labelId]
     /\ lastResult' = Outcome(m)
     /\ UNCHANGED <<now, exported, inflight, browserTabs>>

ExportToJSON(c, fail) ==
  \E m \in {exportToJSON(Begin(fail), c)} :
     /\ FailureHappens(m)
     /\ Commit(m)
     /\ exported' = IF m.err = "" THEN m.ret ELSE exported
     /\ lastCall' = [op |-> "exportToJSON", ctx |-> c]
     /\ lastResult' = Outcome(m)
     /\ UNCHANGED <<now, inflight, browserTabs>>

\* again: the call repeats the call before it, which succeeded
\* a variant in which an import merges whatever the mode
ImportFromJSONAlwaysMerging(c, data, mode, fail) ==
  \E m \in {importFromJSON(Begin(fail), c, data, "merge")} :
     /\ FailureHappens(m)
     /\ Fits(m)
     /\ Commit(m)
     /\ lastCall' = [op |-> "importFromJSON", ctx |-> c, data |-> data, mode |-> mode,
                     again |-> FALSE]
     /\ lastResult' = Outcome(m)
     /\ UNCHANGED <<now, exported, inflight, browserTabs>>

ImportFromJSON(c, data, mode, fail) ==
  \E m \in {importFromJSON(Begin(fail), c, data, mode)} :
     LET call == [op |-> "importFromJSON", ctx |-> c, data |-> data, mode |-> mode]
     IN
     /\ FailureHappens(m)
     /\ Fits(m)
     /\ Commit(m)
     /\ lastCall' = call @@
                    [again |-> /\ lastCall.op = "importFromJSON"
                               /\ lastResult.err = ""
                               /\ [k \in DOMAIN call |-> lastCall[k]] = call]
     /\ lastResult' = Outcome(m)
     /\ UNCHANGED <<now, exported, inflight, browserTabs>>

GetAllTabs(c, fail) ==
  \E m \in {getAllTabs(Begin(fail), c)} :
     /\ FailureHappens(m)
     /\ Commit(m)
     /\ lastCall' = [op |-> "getAllTabs", ctx |-> c]
     /\ lastResult' = Outcome(m)
     /\ UNCHANGED <<now, exported, inflight, browserTabs>>

\* a caller computes the domain of a url, and the domain of that domain
ExtractDomain(url) ==
  /\ lastCall' = [op |-> "extractDomain", url |-> url]
  /\ lastResult' = [err |-> "", site |-> "",
                    value |-> [once |-> extractDomain(url),
                               twice |-> extractDomain(extractDomain(url))]]
  /\ UNCHANGED <<chromeStorage, cachedStorageMode, pages, now, exported, inflight,
                 browserTabs>>

GetAllLabels(c, fail) ==
  \E m \in {getAllLabels(Begin(fail), c)} :
     /\ FailureHappens(m)
     /\ Commit(m)
     /\ lastCall' = [op |-> "getAllLabels", ctx |-> c,
                     afterDelete |-> IF lastCall.op = "deleteCustomLabel"
                                     THEN lastCall.labelId ELSE ""]
     /\ lastResult' = Outcome(m)
     /\ UNCHANGED <<now, exported, inflight, browserTabs>>

PageInit(c, fail) ==
  \E m \in {init(Begin(fail), c)} :
     /\ FailureHappens(m)
     /\ Commit(m)
     /\ lastCall' = [op |-> "init", ctx |-> c]
     /\ lastResult' = Outcome(m)
     /\ UNCHANGED <<now, exported, inflight, browserTabs>>

HandleSaveTab(c, tabData, fail) ==
  \E m \in {handleSaveTab(Begin(fail), c, tabData)} :
     /\ Range(tabData.labels) \subseteq ShownLabels(c)
     /\ FailureHappens(m)
     /\ Fits(m)
     /\ Commit(m)
     /\ lastCall' = [op |-> "handleSaveTab", ctx |-> c, tabData |-> tabData]
     /\ lastResult' = Outcome(m)
     /\ UNCHANGED <<now, exported, inflight, browserTabs>>

HandleImport(c, data, mode, fail) ==
  \E m \in {handleImport(Begin(fail), c, data, mode)} :
     /\ FailureHappens(m)
     /\ Fits(m)
     /\ Commit(m)
     /\ lastCall' = [op |-> "handleImport", ctx |-> c, data |-> data, mode |-> mode]
     /\ lastResult' = Outcome(m)
     /\ UNCHANGED <<now, exported, inflight, browserTabs>>

HandleDeleteLabel(c, labelId, fail) ==
  \E m \in {handleDeleteLabel(Begin(fail), c, labelId)} :
     /\ labelId \in DeletableLabels(c)
     /\ FailureHappens(m)
     /\ Commit(m)
     /\ lastCall' = [op |-> "handleDeleteLabel", ctx |-> c, labelId |-> labelId]
     /\ lastResult' = Outcome(m)
     /\ UNCHANGED <<now, exported, inflight, browserTabs>>

-----------------------------------------------------------------------------
(* Migration: one page context, pages of every size *)

MigTabData ==
  { [url |-> "https://github.com/x", title |-> t] : t \in {"X", BigAscii, BigCJK} }

ModeUpdates == { [storageMode |-> md] : md \in Modes }

MigNext ==
  \/ \E f \in 0..MaxFail : InitializeStorage(f)
  \/ \E d \in MigTabData, f \in 0..MaxFail : SaveTab("popup", d, f)
  \/ \E u \in ModeUpdates, f \in 0..MaxFail : UpdateSettings("popup", u, f)

MigSpec == Init /\ [][MigNext]_vars

\* the step is an updateSettings call that asks for a mode other than the
\* persisted one
ModeChangeStep ==
  /\ lastCall'.op = "updateSettings"
  /\ "storageMode" \in DOMAIN lastCall'.updates
  /\ lastCall'.updates["storageMode"] # PersistedMode(chromeStorage)

\* C1: updateSettings({storageMode:'sync'}), hence migrateStorage(from,
\* 'sync'), fails with the capacity error whenever the {tabs, customLabels}
\* payload it read from the source serializes to more than 100,000 bytes,
\* and then both areas are as they were before the call.
C1_CapacityGuard ==
  [][ ( /\ ModeChangeStep
        /\ lastCall'.updates["storageMode"] = "sync"
        /\ lastResult'.err # HostError
        /\ JSONBytes(HostGet(chromeStorage[PersistedMode(chromeStorage)], DataKeys))
             > SyncLimit )
      => ( /\ lastResult'.err = CapacityError
           /\ StoredData(chromeStorage') = StoredData(chromeStorage) ) ]_vars

\* C2: when the migration that updateSettings runs for a changed
\* storageMode fails, the persisted settings and the caller's cached mode
\* are what they were before the call: the cache is set and the settings
\* are written only after the migration has succeeded.
C2_MigrateBeforePersist ==
  [][ ( /\ ModeChangeStep
        /\ lastResult'.err # ""
        /\ lastResult'.site = "migrateStorage" )
      => ( /\ HostGet(chromeStorage'.local, {"settings"})
                = HostGet(chromeStorage.local, {"settings"})
           /\ PersistedMode(chromeStorage') # lastCall'.updates["storageMode"]
           /\ cachedStorageMode' = cachedStorageMode ) ]_vars

\* a mode change whose migration failed, with tabs in the source
C2_Witness ==
  /\ lastCall.op = "updateSettings"
  /\ lastResult.site = "migrateStorage"
  /\ lastResult.err \in {CapacityError, HostError}
  /\ lastCall.updates["storageMode"] # PersistedMode(chromeStorage)
  /\ chromeStorage[PersistedMode(chromeStorage)].tabs # <<>>

-----------------------------------------------------------------------------
(* Import and export: one page context, documents of every shape *)

U1 == "https://github.com/x"
U2 == "https://example.org/a"

ExtLabel == [id |-> "custom-7", name |-> "Ext", color |-> "#000000", isCustom |-> TRUE]

\* one new tab that carries an id, and a custom label
DocOne ==
  [version |-> "1.0.0",
   data |-> [tabs |-> Arr(<< [id |-> "ext-1", url |-> U1, title |-> "A",
                              labels |-> <<"custom-7">>, dateAdded |-> 1] >>),
             customLabels |-> Arr(<<ExtLabel>>)]]

\* two tabs with the same url and no id, no customLabels member
DocTwins ==
  [version |-> "1.0.0",
   data |-> [tabs |-> Arr(<< [url |-> U2, title |-> "B", labels |-> <<>>],
                             [url |-> U2, title |-> "B2", labels |-> <<>>] >>)]]

\* a tab whose id is the one the first saved tab received
DocSameId ==
  [version |-> "1.0.0",
   data |-> [tabs |-> Arr(<< [id |-> "uuid-1", url |-> U2, title |-> "C",
                              labels |-> <<>>, dateAdded |-> 1] >>),
             customLabels |-> Arr(<<>>)]]

DocNoData == [version |-> "1.0.0"]

DocNoTabs == [version |-> "1.0.0", data |-> [tabs |-> NotArr]]

\* a tab without url, a tab without title, and customLabels that is no array
DocBadTabs ==
  [version |-> "1.0.0",
   data |-> [tabs |-> Arr(<< [title |-> "A"], [url |-> U1, title |-> ""] >>),
             customLabels |-> NotArr]]

ValidDocs == {DocOne, DocTwins, DocSameId}
InvalidDocs == {Null, DocNoData, DocNoTabs, DocBadTabs}

ImpTabData == { [url |-> u, title |-> "X"] : u \in {U1, U2} }

ImpNext ==
  \/ Tick
  \/ \E d \in ImpTabData, f \in 0..MaxFail : SaveTab("options", d, f)
  \/ \E d \in ValidDocs \cup InvalidDocs, md \in {"merge", "replace"}, f \in 0..MaxFail :
       ImportFromJSON("options", d, md, f)

ImpSpec == Init /\ [][ImpNext]_vars

\* the step is a successful importFromJSON(D, 'merge')
MergeStep ==
  /\ lastCall'.op = "importFromJSON"
  /\ lastCall'.mode = "merge"
  /\ lastResult'.err = ""

\* the step is a successful importFromJSON(D, 'merge') that follows a
\* successful importFromJSON(D, 'merge') with the same D
SecondMergeStep == MergeStep /\ lastCall'.again

\* C4, as claimed: the second of two successive merge imports of a document
\* reports tabsImported = 0, labelsImported = 0 and tabsSkipped = the
\* tabsImported of the first, and leaves tabs and customLabels unchanged.
C4_SecondSkipsFirstImported ==
  [][ SecondMergeStep
      => ( /\ lastResult'.value.tabsImported = 0
           /\ lastResult'.value.labelsImported = 0
           /\ lastResult'.value.tabsSkipped = lastResult.value.tabsImported
           /\ chromeStorage' = chromeStorage ) ]_vars

\* C4, amended: the second of two successive merge imports of a document
\* reports tabsImported = 0, labelsImported = 0 and tabsSkipped = the number
\* of tabs of the document (the tabsImported plus the tabsSkipped of the
\* first), and leaves tabs and customLabels unchanged.
C4_MergeIdempotent ==
  [][ SecondMergeStep
      => ( /\ lastResult'.value.tabsImported = 0
           /\ lastResult'.value.labelsImported = 0
           /\ lastResult'.value.tabsSkipped = Len(lastCall'.data["data"]["tabs"].items)
           /\ lastResult'.value.tabsSkipped
                = lastResult.value.tabsImported + lastResult.value.tabsSkipped
           /\ chromeStorage' = chromeStorage ) ]_vars

\* a repeated merge import of a document with tabs and a label
C4_Witness ==
  /\ lastCall.op = "importFromJSON"
  /\ lastCall.mode = "merge"
  /\ lastCall.again
  /\ lastResult.err = ""
  /\ lastResult.value.tabsSkipped > 0
  /\ "customLabels" \in DOMAIN lastCall.data["data"]

UrlsDistinct(tabs) ==
  \A i, j \in DOMAIN tabs : i # j => tabs[i]["url"] # tabs[j]["url"]

\* C5: a merge import keeps the urls of the stored tabs pairwise distinct.
C5_MergeKeepsUrlsUnique ==
  [][ ( /\ MergeStep
        /\ UrlsDistinct(ViewList(chromeStorage, cachedStorageMode, lastCall'.ctx, "tabs")) )
      => UrlsDistinct(ViewList(chromeStorage', cachedStorageMode', lastCall'.ctx, "tabs"))
    ]_vars

\* C6: in every reachable state the ids of the stored tab records are
\* pairwise distinct.
C6_IdsUnique ==
  \A a \in Modes :
    LET tabs == chromeStorage[a].tabs
    IN \A i, j \in DOMAIN tabs :
         (i # j /\ "id" \in DOMAIN tabs[i] /\ "id" \in DOMAIN tabs[j])
           => tabs[i]["id"] # tabs[j]["id"]

\* C7: importFromJSON of a document that validateImportData rejects throws
\* one error whose message lists every reported problem, and leaves the
\* stored tabs and customLabels as they were, in merge and in replace mode.
C7_InvalidImportAborts ==
  [][ ( /\ lastCall'.op = "importFromJSON"
        /\ ~validateImportData(lastCall'.data).valid )
      => ( /\ lastResult'.err
                = "Invalid import data: "
                    \o Join(validateImportData(lastCall'.data).errors, ", ")
           /\ chromeStorage' = chromeStorage ) ]_vars

\* a rejected import of a document with several problems, over stored tabs
C7_Witness ==
  /\ lastCall.op = "importFromJSON"
  /\ Len(validateImportData(lastCall.data).errors) >= 3
  /\ lastResult.err # ""
  /\ ViewList(chromeStorage, cachedStorageMode, lastCall.ctx, "tabs") # <<>>

\* C8: an importFromJSON that a failing host call interrupts leaves the
\* stored tabs and customLabels both as they were before the call.
C8_ImportAllOrNothing ==
  [][ ( /\ lastCall'.op = "importFromJSON"
        /\ lastResult'.err = HostError )
      => StoredData(chromeStorage') = StoredData(chromeStorage) ]_vars

\* C23: an importFromJSON(D, 'replace') that returns leaves the stored tabs
\* equal to the tabs of D and the stored customLabels equal to the
\* customLabels of D, or empty when D has none, whatever was stored before
\* and whatever ids and urls D holds, and returns tabsImported = the number
\* of tabs of D, tabsSkipped = 0 and labelsImported = the number of labels.
C23_ReplaceOverwrites ==
  [][ ( /\ lastCall'.op = "importFromJSON"
        /\ lastCall'.mode = "replace"
        /\ lastResult'.err = "" )
      => LET D == lastCall'.data
         IN /\ ViewList(chromeStorage', cachedStorageMode', lastCall'.ctx, "tabs")
                 = D["data"]["tabs"].items
            /\ ViewList(chromeStorage', cachedStorageMode', lastCall'.ctx, "customLabels")
                 = DocLabels(D)
            /\ lastResult'.value = [tabsImported |-> Len(D["data"]["tabs"].items),
                                    tabsSkipped |-> 0,
                                    labelsImported |-> Len(DocLabels(D))] ]_vars

\* a replace import of a document with two tabs that share a url and carry
\* no id, and without customLabels
C23_Witness ==
  /\ lastCall.op = "importFromJSON"
  /\ lastCall.mode = "replace"
  /\ lastCall.data = DocTwins
  /\ lastResult.err = ""
  /\ lastResult.value.tabsImported = 2
  /\ chromeStorage.local.tabs = DocTwins["data"]["tabs"].items
  /\ chromeStorage.local.customLabels = <<>>

\* C24: an importFromJSON(D, 'merge') that returns reports counts that are
\* what it wrote: tabsImported + tabsSkipped is the number of tabs of D, the
\* stored tabs are the tabs stored before, in their order, followed by
\* tabsImported tabs of D, and the stored customLabels are those stored
\* before followed by labelsImported labels of D.
C24_MergeCountsWhatItWrote ==
  [][ MergeStep
      => LET D == lastCall'.data
             r == lastResult'.value
             before(key) == ViewList(chromeStorage, cachedStorageMode, lastCall'.ctx, key)
             after(key) == ViewList(chromeStorage', cachedStorageMode', lastCall'.ctx, key)
             added(key) == SubSeq(after(key), Len(before(key)) + 1, Len(after(key)))
         IN /\ r.tabsImported + r.tabsSkipped = Len(D["data"]["tabs"].items)
            /\ r.tabsImported >= 0 /\ r.tabsSkipped >= 0 /\ r.labelsImported >= 0
            /\ Len(after("tabs")) = Len(before("tabs")) + r.tabsImported
            /\ SubSeq(after("tabs"), 1, Len(before("tabs"))) = before("tabs")
            /\ \A i \in DOMAIN added("tabs") :
                 \E j \in DOMAIN D["data"]["tabs"].items :
                    /\ added("tabs")[i]["url"] = D["data"]["tabs"].items[j]["url"]
                    /\ added("tabs")[i]["title"] = D["data"]["tabs"].items[j]["title"]
            /\ Len(after("customLabels")) = Len(before("customLabels")) + r.labelsImported
            /\ SubSeq(after("customLabels"), 1, Len(before("customLabels")))
                 = before("customLabels")
            /\ \A i \in DOMAIN added("customLabels") :
                 \E j \in DOMAIN DocLabels(D) : added("customLabels")[i] = DocLabels(D)[j]
    ]_vars

\* a merge import that skipped a tab of the document over a stored tab and
\* a stored label
C24_Witness ==
  /\ lastCall.op = "importFromJSON"
  /\ lastCall.mode = "merge"
  /\ lastResult.err = ""
  /\ lastResult.value.tabsSkipped = 1
  /\ lastResult.value.tabsImported = 0
  /\ lastResult.value.labelsImported = 0
  /\ Len(chromeStorage.local.tabs) = 2
  /\ Len(chromeStorage.local.customLabels) = 1

-----------------------------------------------------------------------------
(* Export, any operations, then import of the exported document *)

RoundTripUpdates ==
  ModeUpdates \cup { [groupsCollapsed |-> [d \in {"github.com"} |-> TRUE]] }

RoundTripNext ==
  \/ SaveTab("options", [url |-> U1, title |-> "X"], 0)
  \/ \E u \in RoundTripUpdates : UpdateSettings("options", u, 0)
  \/ AddCustomLabel("options", "Mine", "#123456", 0)
  \/ ExportToJSON("options", 0)
  \/ exported # Null /\ ImportFromJSON("options", exported, "replace", 0)

RoundTripSpec == Init /\ [][RoundTripNext]_vars

\* C3: importFromJSON(D, 'replace') of a document D that exportToJSON
\* returned earlier leaves the stored tabs, customLabels and settings equal
\* to the ones D was exported from.
C3_RoundTrip ==
  ( /\ lastCall.op = "importFromJSON"
    /\ lastCall.mode = "replace"
    /\ lastResult.err = ""
    /\ exported # Null
    /\ lastCall.data = exported )
  => ( /\ ViewList(chromeStorage, cachedStorageMode, lastCall.ctx, "tabs")
            = exported.data.tabs.items
       /\ ViewList(chromeStorage, cachedStorageMode, lastCall.ctx, "customLabels")
            = exported.data.customLabels.items
       /\ ViewSettings(chromeStorage) = exported.data.settings )

-----------------------------------------------------------------------------
(* Label deletion: the popup, the options page and the full-page view *)

LabelTabData ==
  { [url |-> U2, title |-> "X", labels |-> ls] : ls \in {<<>>, <<"custom-7">>} }

LabelNext ==
  \/ \E c \in Contexts, f \in 0..MaxFail : PageInit(c, f)
  \/ \E d \in LabelTabData, f \in 0..MaxFail : HandleSaveTab("popup", d, f)
  \/ \E f \in 0..MaxFail : HandleImport("tabs", DocOne, "merge", f)
  \/ \E c \in {"popup", "options"}, f \in 0..MaxFail : HandleDeleteLabel(c, "custom-7", f)

LabelSpec == Init /\ [][LabelNext]_vars

\* C9: once handleDeleteLabel has finished, no stored tab carries the
\* deleted label id, whatever happened to the stored collection since the
\* page loaded its snapshot.
C9_DeleteLabelCascades ==
  ( /\ lastCall.op = "handleDeleteLabel"
    /\ lastResult.err = "" )
  => LET tabs == ViewList(chromeStorage, cachedStorageMode, lastCall.ctx, "tabs")
     IN \A i \in DOMAIN tabs : ~Includes(tabs[i]["labels"], lastCall.labelId)

-----------------------------------------------------------------------------
(* Storage mode: three page contexts, each with its own cached mode *)

CtxNext ==
  \/ \E c \in Contexts, f \in 0..MaxFail : GetAllTabs(c, f)
  \/ \E f \in 0..MaxFail : SaveTab("popup", [url |-> U1, title |-> "X"], f)
  \/ \E c \in {"popup", "options"}, u \in ModeUpdates, f \in 0..MaxFail :
       UpdateSettings(c, u, f)

CtxSpec == Init /\ [][CtxNext]_vars

\* C10: a read or write of tabs/customLabels through get/set is served by
\* the area that the persisted settings.storageMode designates at the time
\* of the call, in every page context.
C10_ServedByPersistedMode ==
  ( /\ lastCall.op \in {"getAllTabs", "saveTab"}
    /\ lastResult.err = "" )
  => cachedStorageMode[lastCall.ctx] = PersistedMode(chromeStorage)

\* C35: an updateSettings that changes the mode and succeeds leaves the tabs
\* and the customLabels its page reads as they were just before the call.
C35_ModeChangeKeepsData ==
  [][ ( /\ lastCall'.op = "updateSettings"
        /\ lastResult'.err = ""
        /\ PersistedMode(chromeStorage') # lastCall'.from )
      => \A key \in DataKeys :
            ViewList(chromeStorage', cachedStorageMode', lastCall'.ctx, key)
              = ViewList(chromeStorage, cachedStorageMode, lastCall'.ctx, key)
    ]_vars

-----------------------------------------------------------------------------
(* Settings: every operation that writes, in both storage modes *)

SettingsUpdates ==
  ModeUpdates \cup { [groupsCollapsed |-> [d \in {"github.com"} |-> TRUE]] }

SettingsNext ==
  \/ \E f \in 0..MaxFail : InitializeStorage(f)
  \/ SaveTab("popup", [url |-> U1, title |-> "X"], 0)
  \/ \E u \in SettingsUpdates, f \in 0..MaxFail : UpdateSettings("popup", u, f)
  \/ AddCustomLabel("popup", "Mine", "#123456", 0)
  \/ \E md \in {"merge", "replace"} : ImportFromJSON("popup", DocOne, md, 0)

SettingsSpec == Init /\ [][SettingsNext]_vars

\* C11: in every reachable state the sync area holds no settings key, and
\* what updateSettings returned is what the local area holds, merged over
\* the defaults.
C11_SettingsStayLocal ==
  /\ "settings" \notin chromeStorage.sync.present
  /\ chromeStorage.sync.settings = EmptyArea.settings
  /\ ( lastCall.op = "updateSettings" /\ lastResult.err = "" )
       => /\ "settings" \in chromeStorage.local.present
          /\ lastResult.value = ViewSettings(chromeStorage)

\* the mode is sync, the sync area holds the data, and a later settings
\* update has succeeded
C11_Witness ==
  /\ PersistedMode(chromeStorage) = "sync"
  /\ chromeStorage.sync.tabs # <<>>
  /\ chromeStorage.sync.customLabels # <<>>
  /\ lastCall.op = "updateSettings"
  /\ "groupsCollapsed" \in DOMAIN lastCall.updates
  /\ lastResult.err = ""


\* C26: an updateSettings that changes the storage mode and returns has
\* written the tabs and customLabels the source area held to the
\* destination area; when the source is the sync area it holds neither key
\* afterwards, when the source is the local area it holds them as before;
\* the settings are in the local area and never in the sync area.
C26_MigrationMovesOrCopies ==
  [][ ( /\ ModeChangeStep
        /\ lastResult'.err = "" )
      => LET from == PersistedMode(chromeStorage)
             to == lastCall'.updates["storageMode"]
             held == chromeStorage[from].present \cap DataKeys
         IN /\ HostGet(chromeStorage'[to], held) = HostGet(chromeStorage[from], held)
            /\ HostGet(chromeStorage'[to], DataKeys \ held)
                 = HostGet(chromeStorage[to], DataKeys \ held)
            /\ from = "sync" =>
                 /\ chromeStorage'.sync.present \cap DataKeys = {}
                 /\ chromeStorage'.sync.tabs = <<>>
                 /\ chromeStorage'.sync.customLabels = <<>>
            /\ from = "local" =>
                 HostGet(chromeStorage'.local, DataKeys) = HostGet(chromeStorage.local, DataKeys)
            /\ "settings" \notin chromeStorage'.sync.present
            /\ chromeStorage'.local.settings.storageMode = to ]_vars

\* after a migration from the sync area, which held tabs and labels
C26_Witness ==
  /\ lastCall.op = "updateSettings"
  /\ lastResult.err = ""
  /\ lastCall.from = "sync"
  /\ lastCall.updates = [storageMode |-> "local"]
  /\ chromeStorage.sync.present = {}
  /\ chromeStorage.local.tabs # <<>>
  /\ chromeStorage.local.customLabels # <<>>

-----------------------------------------------------------------------------
(* Overlapping saves: two callers' saveTab calls interleave at their awaits *)

RaceTabData == { [url |-> U1, title |-> "X"], [url |-> U2, title |-> "Y"] }

RaceNext ==
  \/ SaveTab("popup", [url |-> U1, title |-> "X"], 0)
  \/ \E p \in Callers, c \in {"popup", "options"}, td \in RaceTabData, f \in 0..2 :
        SaveTabRead(p, c, td, f)
  \/ \E p \in Callers, f \in 0..1 : SaveTabWrite(p, f)

RaceSpec == Init /\ [][RaceNext]_vars

\* caller p's call and caller q's call both returned a record, both had read
\* before either wrote, and q wrote last
BothReadThenWrote(p, q) ==
  /\ p # q
  /\ inflight[p].pc = "done" /\ inflight[p].err = ""
  /\ inflight[q].pc = "done" /\ inflight[q].err = ""
  /\ p \in inflight[q].overtakenBy

\* C12: when two saveTab calls have both read before either wrote and both
\* returned their record, the stored collection starts with the later
\* writer's copy, which holds the later writer's record and not the earlier
\* writer's: the earlier record is nowhere in the store.
C12_LastWriterWins ==
  \A p, q \in Callers :
     BothReadThenWrote(p, q) =>
       LET stored == ViewList(chromeStorage, cachedStorageMode, inflight[q].ctx, "tabs")
       IN /\ Len(stored) >= Len(inflight[q].tabs)
          /\ SubSeq(stored, 1, Len(inflight[q].tabs)) = inflight[q].tabs
          /\ inflight[q].newTab \in Range(stored)
          /\ \A i \in DOMAIN stored : stored[i].id # inflight[p].newTab.id

C12_Witness ==
  \E p, q \in Callers :
     /\ BothReadThenWrote(p, q)
     /\ lastCall.op = "saveTab:set" /\ lastCall.caller = q
     /\ chromeStorage.local.tabs = inflight[q].tabs
     /\ inflight[p].newTab \notin Range(chromeStorage.local.tabs)
     /\ Len(chromeStorage.local.tabs) = 2
-----------------------------------------------------------------------------
(* Updates of stored records, over saved and imported tabs *)

UpdateIds == {"uuid-1", "missing"}

TabUpdates ==
  { [title |-> "T2", labels |-> <<"work">>],
    [id |-> "moved", dateModified |-> 0] }

UpdNext ==
  \/ Tick
  \/ SaveTab("popup", [url |-> U1, title |-> "X"], 0)
  \/ ImportFromJSON("popup", DocSameId, "merge", 0)
  \/ \E id \in UpdateIds, u \in TabUpdates, f \in 0..2 : UpdateTab("popup", id, u, f)

UpdSpec == Init /\ [][UpdNext]_vars

\* the position of the first record of tabs with the id, 0 when there is none
FirstWithId(tabs, id) ==
  LET hits == {i \in DOMAIN tabs : HasId(tabs[i], id)}
  IN IF hits = {} THEN 0 ELSE CHOOSE i \in hits : \A j \in hits : i <= j

\* C13: an updateTab whose id no stored tab has writes nothing and, when
\* its read was served, fails with 'Tab not found'; an updateTab on a stored
\* id whose host calls were served returns and stores, in the place of the
\* first record with that id and nowhere else, that record with the updates
\* spread over it and dateModified set to the clock.
C13_UpdateTab ==
  [][ lastCall'.op = "updateTab" =>
        LET c == lastCall'.ctx
            before == ViewList(chromeStorage, cachedStorageMode, c, "tabs")
            after == ViewList(chromeStorage', cachedStorageMode', c, "tabs")
            index == FirstWithId(before, lastCall'.id)
            merged == Spread(Spread(before[index], lastCall'.updates),
                             [dateModified |-> now])
        IN IF index = 0
           THEN /\ chromeStorage' = chromeStorage
                /\ lastResult'.err \in {NotFoundError, HostError}
           ELSE \/ lastResult'.err = HostError /\ chromeStorage' = chromeStorage
                \/ /\ lastResult'.err = ""
                   /\ lastResult'.value = merged
                   /\ after = [before EXCEPT ![index] = merged]
                   /\ StoredData(chromeStorage') =
                        [StoredData(chromeStorage) EXCEPT
                           ![PersistedMode(chromeStorage)].tabs = after] ]_vars

C13_Witness ==
  /\ lastCall.op = "updateTab"
  /\ lastResult.err = ""
  /\ Len(chromeStorage.local.tabs) = 2
  /\ \E i, j \in DOMAIN chromeStorage.local.tabs :
        /\ i # j
        /\ chromeStorage.local.tabs[i] = lastResult.value
        /\ "dateModified" \in DOMAIN chromeStorage.local.tabs[i]
        /\ chromeStorage.local.tabs[i].dateModified = now
        /\ "dateModified" \notin DOMAIN chromeStorage.local.tabs[j]

\* C29: an updateTab that returns leaves the record it updated with the id
\* and the dateAdded it had before, whatever the updates hold.
C29_IdAndDateAddedKept ==
  [][ ( /\ lastCall'.op = "updateTab"
        /\ lastResult'.err = "" )
      => LET c == lastCall'.ctx
             before == ViewList(chromeStorage, cachedStorageMode, c, "tabs")
             after == ViewList(chromeStorage', cachedStorageMode', c, "tabs")
             index == FirstWithId(before, lastCall'.id)
         IN /\ after[index].id = lastCall'.id
            /\ after[index].dateAdded = before[index].dateAdded
            /\ lastResult'.value.id = lastCall'.id ]_vars

-----------------------------------------------------------------------------
(* First-run setup, run in any state the other operations leave *)

InstallNext ==
  \/ \E f \in 0..4 : InitializeStorage(f)
  \/ SaveTab("popup", [url |-> U1, title |-> "X"], 0)
  \/ AddCustomLabel("popup", "Mine", "#123456", 0)
  \/ ClearAllTabs("popup", 0)
  \/ \E u \in ModeUpdates : UpdateSettings("popup", u, 0)

InstallSpec == Init /\ [][InstallNext]_vars

InitKeys == {"settings", "tabs", "customLabels"}

InitDefaults == [settings |-> DEFAULT_SETTINGS, tabs |-> <<>>, customLabels |-> <<>>]

\* C14: an initializeStorage step leaves the sync area alone and changes
\* no key the local area already holds, an empty tabs list included; when
\* its host calls were served, each key that was absent holds its default
\* afterwards, and a further run from the state reached would change nothing.
C14_InitializeOnlyAbsent ==
  [][ lastCall'.op = "initializeStorage" =>
        /\ chromeStorage'.sync = chromeStorage.sync
        /\ \A k \in InitKeys :
              k \in chromeStorage.local.present =>
                 /\ k \in chromeStorage'.local.present
                 /\ chromeStorage'.local[k] = chromeStorage.local[k]
        /\ lastResult'.err = "" =>
              /\ chromeStorage'.local.present = InitKeys
              /\ \A k \in InitKeys \ chromeStorage.local.present :
                    chromeStorage'.local[k] = InitDefaults[k]
              /\ initializeStorage(
                    [st |-> chromeStorage', cache |-> cachedStorageMode',
                     page |-> pages', opened |-> browserTabs',
                     ids |-> 0, calls |-> 0, fail |-> 0,
                     err |-> "", site |-> "", ret |-> NoValue]).st = chromeStorage'
    ]_vars

C14_Witness ==
  /\ lastCall.op = "initializeStorage"
  /\ lastResult.err = ""
  /\ chromeStorage.local.tabs # <<>>
  /\ chromeStorage.local.settings = DEFAULT_SETTINGS
  /\ chromeStorage.local.customLabels = <<>>
-----------------------------------------------------------------------------
(* Label ids, over additions, deletions and imports *)

\* a document whose custom label carries the id of a predefined label
DocWorkLabel ==
  [version |-> "1.0.0",
   data |-> [tabs |-> Arr(<< [id |-> "ext-2", url |-> U2, title |-> "W",
                              labels |-> <<"work">>, dateAdded |-> 1] >>),
             customLabels |-> Arr(<< [id |-> "work", name |-> "My work",
                                      color |-> "#111111", isCustom |-> TRUE] >>)]]

LabelIdNext ==
  \/ Tick
  \/ \E n \in {"Mine", "Yours"} : AddCustomLabel("popup", n, "#123456", 0)
  \/ \E id \in {"custom-1", "custom-7", "work"} : DeleteCustomLabel("popup", id, 0)
  \/ \E d \in {DocOne, DocWorkLabel}, md \in {"merge", "replace"} :
        ImportFromJSON("popup", d, md, 0)

LabelIdSpec == Init /\ [][LabelIdNext]_vars

\* C15: in every reachable state the ids of the predefined labels followed by
\* the stored custom labels of either area are pairwise distinct.
C15_LabelIdsDistinct ==
  \A a \in Modes :
     LET all == PREDEFINED_LABELS \o chromeStorage[a].customLabels
     IN \A i, j \in DOMAIN all : i # j => all[i].id # all[j].id
-----------------------------------------------------------------------------
(* The popup's save form, over everything the popup lets the user do *)

CurrentTabInfos ==
  { Null, [url |-> U1, title |-> "A page"], [url |-> U2, title |-> "B page"] }

PopupNext ==
  \/ \E info \in CurrentTabInfos : PopupOpen(info, 0)
  \/ \E f \in 0..3 : PopupSave(f)
  \/ \E id \in UsedIds : PopupDelete(id, 0)
  \/ \E id \in UsedIds, da \in BOOLEAN : PopupOpenTab(id, da, 0)
  \/ HandleImport("popup", DocOne, "merge", 0)
  \/ PopupClearAll(0)

PopupSpec == Init /\ [][PopupNext]_vars

\* the urls of the tabs stored in the area the popup is served from
StoredUrls(st, cache) ==
  LET tabs == ViewList(st, cache, "popup", "tabs")
  IN {tabs[i]["url"] : i \in DOMAIN tabs}

\* C16: a click on Save that saveTab served never stores the url of a tab
\* that the collection held before the click.
C16_SaveNeverDuplicates ==
  [][ ( /\ lastCall'.op = "popup.handleSaveTab"
        /\ lastCall'.currentTab # Null
        /\ ViewList(chromeStorage', cachedStorageMode', "popup", "tabs")
             # ViewList(chromeStorage, cachedStorageMode, "popup", "tabs") )
      => lastCall'.currentTab["url"] \notin StoredUrls(chromeStorage, cachedStorageMode)
    ]_vars

-----------------------------------------------------------------------------
(* Saves, one call at a time, among deletions and imports *)

SaveTabData ==
  { [url |-> U1, title |-> "X"],
    [url |-> U1, title |-> "X2", description |-> "", labels |-> <<>>, favicon |-> ""],
    [url |-> U2, title |-> "Y", description |-> "notes", labels |-> <<"work">>,
     favicon |-> "https://example.org/favicon.ico"],
    [url |-> "not a url", title |-> "Z"] }

SaveNext ==
  \/ Tick
  \/ \E td \in SaveTabData, f \in 0..3 : SaveTab("popup", td, f)
  \/ \E id \in UsedIds : DeleteTab("popup", id, 0)
  \/ ImportFromJSON("popup", DocTwins, "merge", 0)

SaveSpec == Init /\ [][SaveNext]_vars

\* C17: a saveTab step fails only when a host call rejects, whether or not
\* the url is stored already; when it returns, the stored collection is
\* the one before with the returned record appended, and that record has a
\* non-empty id no stored record had, the domain of its url, dateAdded set
\* to the clock, no dateModified, and description, labels and favicon as
\* given or defaulted to '', [] and ''.
C17_SaveTabAppendsOne ==
  [][ lastCall'.op = "saveTab" =>
        LET c == lastCall'.ctx
            tabData == lastCall'.tabData
            before == ViewList(chromeStorage, cachedStorageMode, c, "tabs")
            after == ViewList(chromeStorage', cachedStorageMode', c, "tabs")
            r == lastResult'.value
        IN /\ lastResult'.err \in {"", HostError}
           /\ lastResult'.err = "" =>
                /\ after = Append(before, r)
                /\ r.id # ""
                /\ \A i \in DOMAIN before : ~HasId(before[i], r.id)
                /\ r.url = tabData.url
                /\ r.title = tabData.title
                /\ r.domain = extractDomain(tabData.url)
                /\ r.dateAdded = now
                /\ "dateModified" \notin DOMAIN r
                /\ r.description =
                     (IF "description" \in DOMAIN tabData THEN tabData.description ELSE "")
                /\ r.labels = (IF "labels" \in DOMAIN tabData THEN tabData.labels ELSE <<>>)
                /\ r.favicon = (IF "favicon" \in DOMAIN tabData THEN tabData.favicon ELSE "")
    ]_vars

C17_Witness ==
  /\ lastCall.op = "saveTab"
  /\ lastResult.err = ""
  /\ "description" \notin DOMAIN lastCall.tabData
  /\ Len(chromeStorage.local.tabs) = 2
  /\ chromeStorage.local.tabs[2] = lastResult.value
  /\ chromeStorage.local.tabs[1].url = chromeStorage.local.tabs[2].url
  /\ chromeStorage.local.tabs[1].id # chromeStorage.local.tabs[2].id
-----------------------------------------------------------------------------
(* Opening and removing stored tabs, one or a whole domain *)

Domains == {"github.com", "example.org"}

OpenNext ==
  \/ \E u \in {U1, "https://github.com/y"} :
        SaveTab("popup", [url |-> u, title |-> "X"], 0)
  \/ ImportFromJSON("popup", DocSameId, "merge", 0)
  \/ \E id \in {"uuid-1", "uuid-2", "missing"}, da \in BOOLEAN, f \in 0..MaxFail :
        OpenTab("popup", id, da, f)
  \/ \E d \in Domains, f \in {0, 3} : OpenAllInDomain("popup", d, f)
  \/ \E d \in Domains : DeleteAllInDomain("popup", d, 0)
  \/ CloseBrowserTabs

OpenSpec == Init /\ [][OpenNext]_vars

\* C18: an openTab step on an id no stored tab has opens nothing, changes
\* nothing and, its read served, returns undefined without an error.  On
\* a stored id a step that returns has opened the record's url, has
\* returned the record, and has removed the records with that id exactly
\* when deleteAfter was set; a step that fails has changed no stored data,
\* and a step that opened nothing has failed (so nothing is deleted unless
\* the url was opened first).
C18_OpenTab ==
  [][ lastCall'.op = "openTab" =>
        LET c == lastCall'.ctx
            id == lastCall'.id
            before == ViewList(chromeStorage, cachedStorageMode, c, "tabs")
            after == ViewList(chromeStorage', cachedStorageMode', c, "tabs")
            index == FirstWithId(before, id)
            tab == before[index]
        IN /\ lastResult'.err \in {"", HostError}
           /\ IF index = 0
              THEN /\ browserTabs' = browserTabs
                   /\ chromeStorage' = chromeStorage
                   /\ lastResult'.value = NoValue
              ELSE /\ browserTabs' \in {browserTabs, Append(browserTabs, tab.url)}
                   /\ browserTabs' = browserTabs =>
                        lastResult'.err = HostError
                   /\ lastResult'.err = HostError => chromeStorage' = chromeStorage
                   /\ lastResult'.err = "" =>
                        /\ lastResult'.value = tab
                        /\ after = IF lastCall'.deleteAfter
                                   THEN SelectSeq(before, LAMBDA t : ~HasId(t, id))
                                   ELSE before
    ]_vars

C18_Witness ==
  /\ lastCall.op = "openTab"
  /\ lastCall.deleteAfter
  /\ lastResult.err = ""
  /\ lastResult.value # NoValue
  /\ browserTabs # <<>>
  /\ browserTabs[Len(browserTabs)] = lastResult.value.url
  /\ chromeStorage.local.tabs # <<>>
  /\ \A i \in DOMAIN chromeStorage.local.tabs :
        ~HasId(chromeStorage.local.tabs[i], lastCall.id)

\* the urls of the tabs of a list whose domain member is d, in order
UrlsInDomain(tabs, d) ==
  LET domainTabs == SelectSeq(tabs, LAMBDA t : "domain" \in DOMAIN t /\ t["domain"] = d)
  IN [i \in DOMAIN domainTabs |-> domainTabs[i]["url"]]

\* C19: an openAllInDomain step never changes the store and, when it
\* returns, has opened the url of each stored tab whose domain is d once, in
\* stored order, and returns their number; a deleteAllInDomain step that
\* returns leaves the tabs of the other domains in their order, returns the
\* number of tabs removed, and opens nothing.
C19_DomainOperations ==
  [][ LET c == lastCall'.ctx
          d == lastCall'.domain
          before == ViewList(chromeStorage, cachedStorageMode, c, "tabs")
          after == ViewList(chromeStorage', cachedStorageMode', c, "tabs")
      IN /\ lastCall'.op = "openAllInDomain" =>
              /\ chromeStorage' = chromeStorage
              /\ lastResult'.err = "" =>
                    /\ browserTabs' = browserTabs \o UrlsInDomain(before, d)
                    /\ lastResult'.value = Len(UrlsInDomain(before, d))
         /\ lastCall'.op = "deleteAllInDomain" =>
              /\ browserTabs' = browserTabs
              /\ lastResult'.err = "" =>
                    /\ after = SelectSeq(before, LAMBDA t :
                                  ~("domain" \in DOMAIN t /\ t["domain"] = d))
                    /\ lastResult'.value = Len(UrlsInDomain(before, d))
                    /\ Len(after) = Len(before) - lastResult'.value
    ]_vars

C19_Witness ==
  /\ lastCall.op = "openAllInDomain"
  /\ lastResult.err = ""
  /\ lastResult.value = 2
  /\ Len(browserTabs) = 2
  /\ browserTabs[1] # browserTabs[2]
  /\ Len(chromeStorage.local.tabs) = 2

\* C39: for every group getSortedDomainGroups makes of the stored tabs,
\* openAllInDomain and deleteAllInDomain of the group's domain return the
\* group's count.
C39_GroupsAgreeWithBulkOps ==
  [][ (lastCall'.op \in {"openAllInDomain", "deleteAllInDomain"} /\ lastResult'.err = "")
      => LET before == ViewList(chromeStorage, cachedStorageMode, lastCall'.ctx, "tabs")
             groups == getSortedDomainGroups(before)
         IN groups.err = ""
              => \A i \in DOMAIN groups.value :
                    groups.value[i].domain = lastCall'.domain
                      => lastResult'.value = groups.value[i].count
    ]_vars
-----------------------------------------------------------------------------
(* Domain groups of any list of tabs *)

\* tabs as saveTab stores them, one as an import stores it (no domain
\* member), one whose imported domain member is an array index, and one
\* whose imported domain member is empty
GroupTabs ==
  { [id |-> "a", url |-> U1, domain |-> "github.com", title |-> "A", dateAdded |-> 1],
    [id |-> "b", url |-> "https://github.com/y", domain |-> "github.com", title |-> "B",
     dateAdded |-> 2],
    [id |-> "c", url |-> U2, title |-> "C", dateAdded |-> 1],
    [id |-> "d", url |-> "http://constructor/x", domain |-> "constructor", title |-> "D",
     dateAdded |-> 1],
    [id |-> "e", url |-> U2, domain |-> "42", title |-> "E", dateAdded |-> 2],
    [id |-> "f", url |-> "https://github.com/y", domain |-> "", title |-> "F",
     dateAdded |-> 2] }

GroupInputs == UNION { [1..n -> GroupTabs] : n \in 0..MaxGroupTabs }

GroupInit ==
  /\ chromeStorage = [local |-> EmptyArea, sync |-> EmptyArea]
  /\ cachedStorageMode = [c \in Contexts |-> NULL]
  /\ pages = [c \in Contexts |->
                IF c = "popup" THEN NewPopup
                ELSE [savedTabs |-> <<>>, allLabels |-> <<>>]]
  /\ now = 1
  /\ exported = Null
  /\ lastCall \in { [op |-> "tabs", tabs |-> l] : l \in GroupInputs }
  /\ lastResult = [err |-> "", site |-> "", value |-> NoValue]
  /\ inflight = [p \in Callers |-> Idle]
  /\ browserTabs = <<>>

\* a page renders the list
GetSortedDomainGroups ==
  /\ lastCall.op = "tabs"
  /\ lastCall' = [op |-> "getSortedDomainGroups", tabs |-> lastCall.tabs]
  /\ lastResult' = getSortedDomainGroups(lastCall.tabs)
  /\ UNCHANGED <<chromeStorage, cachedStorageMode, pages, now, exported, inflight,
                 browserTabs>>

\* groupTabsByDomain applied to the list
GroupTabsByDomain ==
  /\ lastCall.op = "tabs"
  /\ lastCall' = [op |-> "groupTabsByDomain", tabs |-> lastCall.tabs]
  /\ lastResult' = [err |-> groupTabsByDomain(lastCall.tabs).err, site |-> "",
                    value |-> groupTabsByDomain(lastCall.tabs).of]
  /\ UNCHANGED <<chromeStorage, cachedStorageMode, pages, now, exported, inflight,
                 browserTabs>>

GroupNext ==
  \/ GetSortedDomainGroups
  \/ GroupTabsByDomain

GroupSpec == GroupInit /\ [][GroupNext]_vars

\* the position at which the tabs of the list first have domain d
FirstSeen(tabs, d) ==
  LET hits == {i \in DOMAIN tabs :
                 (IF Truthy(tabs[i], "domain") THEN tabs[i]["domain"]
                  ELSE extractDomain(tabs[i]["url"])) = d}
  IN CHOOSE i \in hits : \A j \in hits : i <= j

\* how often t occurs in the list s
Occurrences(s, t) == Cardinality({i \in DOMAIN s : s[i] = t})

\* C20: for every list of tabs getSortedDomainGroups returns groups in
\* which every tab of the list occurs as often as in the list, all in one
\* group; the counts add up to the length of the list, each count is the
\* length of its group's tabs, and the groups are in descending order of
\* count, groups of equal count in the order their domains first occur.
C20_GroupsPartition ==
  lastCall.op = "getSortedDomainGroups" =>
    LET tabs == lastCall.tabs
        gs == lastResult.value
    IN /\ lastResult.err = ""
       /\ SumSeq([i \in DOMAIN gs |-> gs[i].count]) = Len(tabs)
       /\ \A i \in DOMAIN gs : gs[i].count = Len(gs[i].tabs)
       /\ \A k \in DOMAIN tabs :
             \E i \in DOMAIN gs :
                /\ Occurrences(gs[i].tabs, tabs[k]) = Occurrences(tabs, tabs[k])
                /\ \A j \in DOMAIN gs : j # i => Occurrences(gs[j].tabs, tabs[k]) = 0
       /\ \A i, j \in DOMAIN gs :
             i < j => \/ gs[i].count > gs[j].count
                      \/ /\ gs[i].count = gs[j].count
                         /\ FirstSeen(tabs, gs[i].domain) < FirstSeen(tabs, gs[j].domain)

\* the domain a tab is grouped under: its stored domain member, and
\* extractDomain of its url when that member is absent or empty
GroupKey(tab) ==
  IF "domain" \in DOMAIN tab /\ tab["domain"] # "" THEN tab["domain"]
  ELSE extractDomain(tab["url"])

RECURSIVE NewestFirst(_)
\* the tabs of s by descending dateAdded, those of one dateAdded in the
\* order they have in s
NewestFirst(s) ==
  IF s = <<>> THEN <<>>
  ELSE LET newest == CHOOSE d \in {s[i]["dateAdded"] : i \in DOMAIN s} :
                        \A i \in DOMAIN s : s[i]["dateAdded"] <= d
       IN SelectSeq(s, LAMBDA t : t["dateAdded"] = newest)
            \o NewestFirst(SelectSeq(s, LAMBDA t : t["dateAdded"] # newest))

\* the groups of the result are those of the keys of the list, each holding
\* the tabs of its key newest first
KeyedAndNewestFirst ==
  /\ lastResult.err = ""
  /\ DOMAIN lastResult.value = {GroupKey(lastCall.tabs[i]) : i \in DOMAIN lastCall.tabs}
  /\ \A d \in DOMAIN lastResult.value :
        lastResult.value[d]
          = NewestFirst(SelectSeq(lastCall.tabs, LAMBDA t : GroupKey(t) = d))

\* C34 as stated: for every list groupTabsByDomain returns the groups of the
\* stored domains (of extractDomain(url) where the domain is absent or
\* empty), each in descending order of dateAdded, tabs of equal dateAdded in
\* their order in the list.
C34_GroupsKeyedAndSorted ==
  lastCall.op = "groupTabsByDomain" => KeyedAndNewestFirst

\* C34: the same for every list none of whose tabs has a domain that names
\* a property objects inherit; for a list with such a tab the call throws.
C34_GroupsKeyedAndSortedUnlessInherited ==
  lastCall.op = "groupTabsByDomain" =>
    IF \E i \in DOMAIN lastCall.tabs : GroupKey(lastCall.tabs[i]) \in InheritedNames
    THEN lastResult.err = TypeError
    ELSE KeyedAndNewestFirst

\* a list whose github.com group comes out in another order than the list
\* has it, holding a tab with an empty domain member
C34_Witness ==
  /\ lastCall.op = "groupTabsByDomain"
  /\ lastResult.err = ""
  /\ "github.com" \in DOMAIN lastResult.value
  /\ lastResult.value["github.com"]
       # SelectSeq(lastCall.tabs, LAMBDA t : GroupKey(t) = "github.com")
  /\ \E i \in DOMAIN lastResult.value["github.com"] :
        lastResult.value["github.com"][i]["domain"] = ""
-----------------------------------------------------------------------------
(* Search over any list of tabs and any query *)

\* a title-only match of "git", a url-only match, a match on an accented
\* title and a label, a tab without the optional members that matches
\* nothing, and a match on every field
SearchTabs ==
  { [id |-> "a", title |-> Str(<<"G", "i", "t">>), description |-> Str(<<>>),
     url |-> Str(<<"h", "u", "b">>), domain |-> Str(<<"h", "u", "b">>), labels |-> <<>>],
    [id |-> "b", title |-> Str(<<"D">>), description |-> Str(<<"d">>),
     url |-> Str(<<"d", "i", "g", "i", "t">>), domain |-> Str(<<"d", "c">>),
     labels |-> <<>>],
    [id |-> "c", title |-> Str(<<"G", "í", "t">>), description |-> Str(<<>>),
     url |-> Str(<<"u">>), domain |-> Str(<<"u">>),
     labels |-> << Str(<<"h">>), Str(<<"g", "i", "t">>) >>],
    [id |-> "d", title |-> Str(<<"g", "i">>), url |-> Str(<<"t", "x">>)],
    [id |-> "e", title |-> Str(<<"g", "i", "t">>),
     description |-> Str(<<"a", " ", "g", "i", "t">>),
     url |-> Str(<<"g", "i", "t", "x">>), domain |-> Str(<<"G", "I", "T">>),
     labels |-> << Str(<<"g", "i", "t">>) >>] }

SearchQueries ==
  { NoValue, Str(<<>>), Str(<<" ", " ">>), Str(<<"´">>), Str(<<"g", "i", "t">>),
    Str(<<" ", "G", "í", "T", " ">>), Str(<<"i", " ", "t">>), Str(<<"x">>),
    Str(<<"t", " ", "a">>) }

SearchInputs == UNION { [1..n -> SearchTabs] : n \in 0..MaxSearchTabs }

SearchInit ==
  /\ chromeStorage = [local |-> EmptyArea, sync |-> EmptyArea]
  /\ cachedStorageMode = [c \in Contexts |-> NULL]
  /\ pages = [c \in Contexts |->
                IF c = "popup" THEN NewPopup
                ELSE [savedTabs |-> <<>>, allLabels |-> <<>>]]
  /\ now = 1
  /\ exported = Null
  /\ lastCall \in { [op |-> "query", tabs |-> l, query |-> q] :
                       l \in SearchInputs, q \in SearchQueries }
  /\ lastResult = [err |-> "", site |-> "", value |-> NoValue]
  /\ inflight = [p \in Callers |-> Idle]
  /\ browserTabs = <<>>

\* a page filters its list: both search functions applied to the same input
Search ==
  /\ lastCall.op = "query"
  /\ lastCall' = [op |-> "search", tabs |-> lastCall.tabs, query |-> lastCall.query]
  /\ lastResult' = [err |-> "", site |-> "",
                    value |-> [searchTabs |-> searchTabs(lastCall.tabs, lastCall.query),
                               searchTabsWithRelevance |->
                                 searchTabsWithRelevance(lastCall.tabs, lastCall.query)]]
  /\ UNCHANGED <<chromeStorage, cachedStorageMode, pages, now, exported, inflight,
                 browserTabs>>

SearchNext == Search

SearchSpec == SearchInit /\ [][SearchNext]_vars

\* the normalized text of the member contains the normalized query
FieldHas(tab, f, nq) == IncludesText(normalizeSearchText(Member(tab, f)), nq)

LabelHas(tab, nq) ==
  \E i \in DOMAIN LabelsOf(tab) : IncludesText(normalizeSearchText(LabelsOf(tab)[i]), nq)

Matches(tab, nq) ==
  \/ \E f \in {"title", "domain", "description", "url"} : FieldHas(tab, f, nq)
  \/ LabelHas(tab, nq)

\* the place of position p of tabs in the result: behind the matching
\* positions of higher score and the earlier ones of equal score
Rank(tabs, nq, p) ==
  1 + Cardinality({r \in DOMAIN tabs :
        /\ Matches(tabs[r], nq)
        /\ \/ Score(tabs[r], nq) > Score(tabs[p], nq)
           \/ Score(tabs[r], nq) = Score(tabs[p], nq) /\ r < p})

\* C21: for a query that is undefined, empty, blank or normalizes to the
\* empty text both functions return the list as it is; for any other query
\* searchTabsWithRelevance returns exactly the positions of the list of
\* which some field contains the normalized query, those of higher score
\* first and those of equal score in the order of the list.
C21_RelevanceSearchExact ==
  lastCall.op = "search" =>
    LET tabs == lastCall.tabs
        nq == normalizeSearchText(lastCall.query)
        found == lastResult.value.searchTabsWithRelevance
        hits == {p \in DOMAIN tabs : Matches(tabs[p], nq)}
    IN IF nq = Str(<<>>)
       THEN found = tabs /\ lastResult.value.searchTabs = tabs
       ELSE /\ Len(found) = Cardinality(hits)
            /\ \A p \in hits : found[Rank(tabs, nq, p)] = tabs[p]

C21_Witness ==
  /\ lastCall.op = "search"
  /\ lastCall.query = Str(<<" ", "G", "í", "T", " ">>)
  /\ Len(lastCall.tabs) = 3
  /\ Len(lastResult.value.searchTabsWithRelevance) = 2
  /\ lastResult.value.searchTabsWithRelevance[1] = lastCall.tabs[3]
  /\ lastResult.value.searchTabsWithRelevance[2] = lastCall.tabs[1]

\* C22: a tab's score is the sum of 10, 8, 6, 4 and 2 over the fields that
\* match (title, domain, labels, description, url), a number from 0 to 30,
\* and in every result a tab that matches on its title alone stands before
\* every tab that matches on its url alone.
C22_ScoreOrdersResults ==
  lastCall.op = "search" /\ normalizeSearchText(lastCall.query) # Str(<<>>) =>
    LET nq == normalizeSearchText(lastCall.query)
        found == lastResult.value.searchTabsWithRelevance
        only(tab, f) ==
          /\ FieldHas(tab, f, nq)
          /\ \A g \in {"title", "domain", "description", "url"} \ {f} : ~FieldHas(tab, g, nq)
          /\ ~LabelHas(tab, nq)
    IN /\ \A p \in DOMAIN lastCall.tabs :
            LET tab == lastCall.tabs[p]
            IN /\ Score(tab, nq) \in 0..30
               /\ Score(tab, nq) =
                    (IF FieldHas(tab, "title", nq) THEN 10 ELSE 0)
                    + (IF FieldHas(tab, "domain", nq) THEN 8 ELSE 0)
                    + (IF LabelHas(tab, nq) THEN 6 ELSE 0)
                    + (IF FieldHas(tab, "description", nq) THEN 4 ELSE 0)
                    + (IF FieldHas(tab, "url", nq) THEN 2 ELSE 0)
       /\ \A i, j \in DOMAIN found :
            only(found[i], "title") /\ only(found[j], "url") => i < j

C22_Witness ==
  /\ lastCall.op = "search"
  /\ lastCall.query = Str(<<"g", "i", "t">>)
  /\ Len(lastCall.tabs) = 3
  /\ lastCall.tabs[1].id = "b" /\ lastCall.tabs[2].id = "e" /\ lastCall.tabs[3].id = "a"
  /\ Score(lastCall.tabs[2], lastCall.query) = 30
  /\ lastResult.value.searchTabsWithRelevance =
       << lastCall.tabs[2], lastCall.tabs[3], lastCall.tabs[1] >>

\* C40: for every list and every query searchTabs and
\* searchTabsWithRelevance return the same set of tabs.
C40_SearchesAgree ==
  lastCall.op = "search" =>
    Range(lastResult.value.searchTabs) = Range(lastResult.value.searchTabsWithRelevance)
-----------------------------------------------------------------------------
(* The label list under additions, deletions and imports of custom labels *)

AllLabelsNext ==
  \/ Tick
  \/ \E f \in {0, 2} : AddCustomLabel("popup", "Mine", "#123456", f)
  \/ \E id \in {"custom-1", "custom-7", "work"}, f \in {0, 2} :
        DeleteCustomLabel("popup", id, f)
  \/ \E d \in {DocOne, DocWorkLabel}, md \in {"merge", "replace"} :
        ImportFromJSON("popup", d, md, 0)
  \/ \E f \in 0..1 : GetAllLabels("popup", f)

AllLabelsSpec == Init /\ [][AllLabelsNext]_vars

\* C25: whatever additions, deletions (also with the id of a predefined
\* label) and imports of custom labels came before, getAllLabels returns the
\* six predefined labels work, personal, read-later, reference, learning and
\* shopping, as they are defined, followed by the stored custom labels in
\* their stored order.
C25_PredefinedLabelsFirst ==
  ( /\ lastCall.op = "getAllLabels"
    /\ lastResult.err = "" )
  => LET labels == lastResult.value
         stored == ViewList(chromeStorage, cachedStorageMode, lastCall.ctx, "customLabels")
     IN /\ Len(labels) = 6 + Len(stored)
        /\ SubSeq(labels, 1, 6) = PREDEFINED_LABELS
        /\ [i \in 1..6 |-> labels[i].id]
             = <<"work", "personal", "read-later", "reference", "learning", "shopping">>
        /\ \A i \in 1..6 : ~labels[i].isCustom
        /\ SubSeq(labels, 7, Len(labels)) = stored

\* the list read after deleteCustomLabel('work'), over a stored custom label
C25_Witness ==
  /\ lastCall.op = "getAllLabels"
  /\ lastResult.err = ""
  /\ lastCall.afterDelete = "work"
  /\ Len(lastResult.value) = 7
  /\ lastResult.value[7].id = "custom-7"
  /\ lastResult.value[1].name = "Work"
-----------------------------------------------------------------------------
(* Validation of any document *)

\* the elements a tabs array of a parsed file can hold: a tab, a tab without
\* url, one with an empty title, one with neither, and null
DocElements ==
  { [url |-> U1, title |-> "A"], [title |-> "A"], [url |-> U1, title |-> ""],
    [description |-> "d"], Null }

\* customLabels: an array, an object that is no array, and null
DocLabelValues == { Arr(<<>>), Arr(<<ExtLabel>>), NotArr, Null }

DocTabLists == UNION { [1..n -> DocElements] : n \in 0..MaxDocTabs }

Documents ==
  { Null, DocNoData, DocNoTabs }
  \cup { [version |-> "1.0.0", data |-> [tabs |-> Arr(l)]] : l \in DocTabLists }
  \cup { [version |-> "1.0.0", data |-> [tabs |-> Arr(l), customLabels |-> v]] :
           l \in DocTabLists, v \in DocLabelValues }

ValidateInit ==
  /\ chromeStorage = [local |-> EmptyArea, sync |-> EmptyArea]
  /\ cachedStorageMode = [c \in Contexts |-> NULL]
  /\ pages = [c \in Contexts |->
                IF c = "popup" THEN NewPopup
                ELSE [savedTabs |-> <<>>, allLabels |-> <<>>]]
  /\ now = 1
  /\ exported = Null
  /\ lastCall \in { [op |-> "document", data |-> d] : d \in Documents }
  /\ lastResult = [err |-> "", site |-> "", value |-> NoValue]
  /\ inflight = [p \in Callers |-> Idle]
  /\ browserTabs = <<>>

ValidateImportData ==
  /\ lastCall.op = "document"
  /\ lastCall' = [op |-> "validateImportData", data |-> lastCall.data]
  /\ lastResult' =
       LET validation == validateImportData(lastCall.data)
       IN IF "threw" \in DOMAIN validation
          THEN [err |-> validation.threw, site |-> "validateImportData", value |-> NoValue]
          ELSE [err |-> "", site |-> "", value |-> validation]
  /\ UNCHANGED <<chromeStorage, cachedStorageMode, pages, now, exported, inflight,
                 browserTabs>>

ValidateNext == ValidateImportData

ValidateSpec == ValidateInit /\ [][ValidateNext]_vars

\* the number of positions of tabs without a non-empty member f
Missing(tabs, f) == Cardinality({i \in DOMAIN tabs : ~Truthy(tabs[i], f)})

\* C27: validateImportData returns, for a null document or one without data,
\* exactly one error; for a document whose data.tabs is an array, one error
\* for every index without url and one for every index without title, plus
\* one error when customLabels is present and no array; and valid is true
\* exactly when the list of errors is empty.
C27_ValidationReportsAll ==
  lastCall.op = "validateImportData" =>
    LET D == lastCall.data
    IN /\ lastResult.err = ""
       /\ lastResult.value.valid <=> lastResult.value.errors = <<>>
       /\ (D = Null \/ "data" \notin DOMAIN D) => Len(lastResult.value.errors) = 1
       /\ (D # Null /\ "data" \in DOMAIN D /\ D["data"]["tabs"].array) =>
            Len(lastResult.value.errors)
              = Missing(D["data"]["tabs"].items, "url")
                + Missing(D["data"]["tabs"].items, "title")
                + (IF /\ "customLabels" \in DOMAIN D["data"]
                      /\ D["data"]["customLabels"] \notin {Arr(<<>>), Arr(<<ExtLabel>>)}
                   THEN 1 ELSE 0)
-----------------------------------------------------------------------------
(* Domains of urls of every kind *)

\* what new URL(url) rejects: a bare hostname, a relative reference, free
\* text and the empty string
UnparseableUrls == {"github.com", "/relative/path", "not a url", ""}

DomainInputs ==
  {"https://github.com/x", "https://example.org/a", "http://constructor/x"}
    \cup UnparseableUrls

DomainNext ==
  \/ Tick
  \/ \E u \in DomainInputs : ExtractDomain(u)
  \/ \E u \in DomainInputs, f \in 0..3 : SaveTab("popup", [url |-> u, title |-> "T"], f)
  \/ ClearAllTabs("popup", 0)

DomainSpec == Init /\ [][DomainNext]_vars

-----------------------------------------------------------------------------
(* Deletion by id, over stored ids, shared ids and ids no record has *)

DeleteNext ==
  \/ Tick
  \/ SaveTab("popup", [url |-> U1, title |-> "X"], 0)
  \/ ImportFromJSON("popup", DocSameId, "merge", 0)
  \/ ImportFromJSON("popup", DocTwins, "replace", 0)
  \/ \E id \in {"uuid-1", "uuid-2", "missing"}, f \in 0..2 : DeleteTab("popup", id, f)

DeleteSpec == Init /\ [][DeleteNext]_vars

\* C30: a deleteTab step fails only when a host call rejects, and then
\* stores nothing; when it returns, the stored collection is the one before
\* without the records that have the id, the others in their order, which
\* is the collection before when no record has the id; and a deleteTab
\* that follows a deleteTab of the same id leaves the collection as it is.
C30_DeleteTabIdempotent ==
  [][ lastCall'.op = "deleteTab" =>
        LET c == lastCall'.ctx
            id == lastCall'.id
            before == ViewList(chromeStorage, cachedStorageMode, c, "tabs")
            after == ViewList(chromeStorage', cachedStorageMode', c, "tabs")
            kept == {i \in DOMAIN before : ~("id" \in DOMAIN before[i] /\ before[i]["id"] = id)}
        IN /\ lastResult'.err \in {"", HostError}
           /\ lastResult'.err = HostError =>
                StoredData(chromeStorage') = StoredData(chromeStorage)
           /\ lastResult'.err = "" =>
                /\ Len(after) = Cardinality(kept)
                /\ \A i \in kept :
                     after[Cardinality({j \in kept : j <= i})] = before[i]
                /\ kept = DOMAIN before => after = before
                /\ \A i \in DOMAIN after : ~HasId(after[i], id)
                /\ ( /\ lastCall.op = "deleteTab"
                     /\ lastCall.id = id
                     /\ lastResult.err = "" ) => after = before
                /\ StoredData(chromeStorage') =
                     [StoredData(chromeStorage) EXCEPT
                        ![PersistedMode(chromeStorage)].tabs = after] ]_vars

\* a deleteTab of an id no record has, over two stored tabs that share
\* their id
C30_Witness ==
  /\ lastCall.op = "deleteTab"
  /\ lastCall.id = "missing"
  /\ lastResult.err = ""
  /\ Len(chromeStorage.local.tabs) = 2
  /\ HasId(chromeStorage.local.tabs[1], "uuid-1")
  /\ HasId(chromeStorage.local.tabs[2], "uuid-1")
-----------------------------------------------------------------------------
(* src/unnamed/part_000: the full-page view.  Its module-level allTabs is   *)
(* pages.tabs.savedTabs.                                                    *)

\* the place localeCompare gives the titles in use, '' first
TitleOrder(tab) ==
  LET title == Member(tab, "title")
  IN CASE title = Str(<<"D">>) -> 1
       [] title = Str(<<"g", "i">>) -> 2
       [] title = Str(<<"g", "i", "t">>) -> 3
       [] title = Str(<<"G", "i", "t">>) -> 4
       [] title = Str(<<"G", "í", "t">>) -> 5
       [] OTHER -> 0

\* sortTabs(tabs, order)
sortTabs(tabs, order) ==
  LET by(key(_)) == Unkeyed(SortDesc(Keyed(tabs, [i \in DOMAIN tabs |-> key(tabs[i])])))
      dateDesc(tab) == tab.dateAdded
      dateAsc(tab) == 0 - tab.dateAdded
      alphaAsc(tab) == 0 - TitleOrder(tab)
      alphaDesc(tab) == TitleOrder(tab)
  IN CASE order = "date-desc" -> by(dateDesc)
       [] order = "date-asc" -> by(dateAsc)
       [] order = "alpha-asc" -> by(alphaAsc)
       [] order = "alpha-desc" -> by(alphaDesc)
       [] OTHER -> tabs

\* what tab.labels.includes throws for a tab without labels
NoLabelsError == "Cannot read properties of undefined (reading 'includes')"

\* applyFilters(): the new filteredTabs, or the error it throws
applyFilters(allTabs, selectedDomain, selectedLabels, searchQuery, sortOrder) ==
  LET byDomain == IF selectedDomain # "all"
                  THEN SelectSeq(allTabs, LAMBDA tab :
                         "domain" \in DOMAIN tab /\ tab["domain"] = selectedDomain)
                  ELSE allTabs
      byLabels == IF selectedLabels # <<>>
                  THEN SelectSeq(byDomain, LAMBDA tab :
                         \E i \in DOMAIN selectedLabels :
                            \E j \in DOMAIN tab["labels"] : tab["labels"][j] = selectedLabels[i])
                  ELSE byDomain
      bySearch == IF searchQuery # Str(<<>>)
                  THEN searchTabsWithRelevance(byLabels, searchQuery)
                  ELSE byLabels
  IN IF /\ selectedLabels # <<>>
        /\ \E i \in DOMAIN byDomain : "labels" \notin DOMAIN byDomain[i]
     THEN [threw |-> NoLabelsError]
     ELSE [filteredTabs |-> sortTabs(bySearch, sortOrder)]

\* the urls openAllInDomain(domain) is about to open, after its read
openAllInDomainRead(m, c, domain) ==
  LET rest(m1) ==
        IF m1.err # "" THEN m1
        ELSE LET tabs == GotList(m1, c, "tabs")
                 domainTabs == SelectSeq(tabs, LAMBDA t :
                                 "domain" \in DOMAIN t /\ t["domain"] = domain)
             IN Return(m1, [i \in DOMAIN domainTabs |-> domainTabs[i]["url"]])
  IN rest(get(m, c))

\* a bulk open that has the list it iterates: nothing issued yet
Opening(op, urls) ==
  [pc |-> "loop", op |-> op, urls |-> urls, issued |-> 0, pending |-> <<>>,
   resolved |-> 0, err |-> ""]

\* caller p's openAllInDomain(domain) runs until its loop
OpenAllInDomainRead(p, c, domain, fail) ==
  /\ inflight[p].pc = "idle"
  /\ \E m \in {openAllInDomainRead(Begin(fail), c, domain)} :
       /\ FailureHappens(m)
       /\ Commit(m)
       /\ inflight' = [inflight EXCEPT ![p] =
             IF m.err # "" THEN [Opening("openAllInDomain", <<>>) EXCEPT
                                   !.pc = "done", !.err = m.err]
             ELSE Opening("openAllInDomain", m.ret)]
       /\ lastCall' = [op |-> "openAllInDomain:get", caller |-> p]
       /\ lastResult' = [err |-> m.err, site |-> m.site, value |-> NoValue]
       /\ UNCHANGED <<now, exported, browserTabs>>

\* caller p's handleOpenAllVisible() runs until its loop, over the
\* filteredTabs the page shows with no filter set; it returns at once
\* when there are none, or when the user declines to open more than ten
HandleOpenAllVisible(p, confirmed) ==
  /\ inflight[p].pc = "idle"
  /\ LET filteredTabs == applyFilters(pages["tabs"].savedTabs, "all", <<>>, Str(<<>>),
                                      "date-desc").filteredTabs
         urls == [i \in DOMAIN filteredTabs |-> filteredTabs[i]["url"]]
     IN inflight' = [inflight EXCEPT ![p] =
          IF Len(filteredTabs) = 0 \/ (Len(filteredTabs) > 10 /\ ~confirmed)
          THEN [Opening("handleOpenAllVisible", <<>>) EXCEPT !.pc = "done"]
          ELSE Opening("handleOpenAllVisible", urls)]
  /\ lastCall' = [op |-> "handleOpenAllVisible", caller |-> p]
  /\ lastResult' = [err |-> "", site |-> "", value |-> NoValue]
  /\ UNCHANGED <<chromeStorage, cachedStorageMode, pages, now, exported, browserTabs>>

\* a variant of the loop that issues the next call without awaiting the last
IssueCreateUnawaited(p) ==
  /\ inflight[p].pc = "loop"
  /\ inflight[p].issued < Len(inflight[p].urls)
  /\ inflight' = [inflight EXCEPT
        ![p].issued = @ + 1,
        ![p].pending = Append(@, inflight[p].urls[inflight[p].issued + 1])]
  /\ lastCall' = [op |-> "chrome.tabs.create", caller |-> p]
  /\ lastResult' = [err |-> "", site |-> "", value |-> NoValue]
  /\ UNCHANGED <<chromeStorage, cachedStorageMode, pages, now, exported, browserTabs>>

\* the loop of caller p calls chrome.tabs.create for its next tab and awaits
IssueCreate(p) ==
  /\ inflight[p].pc = "loop"
  /\ inflight[p].issued < Len(inflight[p].urls)
  /\ inflight' = [inflight EXCEPT
        ![p].pc = "awaitCreate",
        ![p].issued = @ + 1,
        ![p].pending = Append(@, inflight[p].urls[inflight[p].issued + 1])]
  /\ lastCall' = [op |-> "chrome.tabs.create", caller |-> p]
  /\ lastResult' = [err |-> "", site |-> "", value |-> NoValue]
  /\ UNCHANGED <<chromeStorage, cachedStorageMode, pages, now, exported, browserTabs>>

\* the browser opens the tab of the oldest pending call of caller p, whose
\* loop resumes
CreateResolves(p) ==
  /\ "pending" \in DOMAIN inflight[p]
  /\ inflight[p].pending # <<>>
  /\ browserTabs' = Append(browserTabs, Head(inflight[p].pending))
  /\ inflight' = [inflight EXCEPT
        ![p].pc = IF @ = "awaitCreate" THEN "loop" ELSE @,
        ![p].pending = Tail(@),
        ![p].resolved = @ + 1]
  /\ lastCall' = [op |-> "chrome.tabs.create:resolved", caller |-> p]
  /\ lastResult' = [err |-> "", site |-> "", value |-> NoValue]
  /\ UNCHANGED <<chromeStorage, cachedStorageMode, pages, now, exported>>

\* the pending call of caller p rejects: openAllInDomain throws,
\* handleOpenAllVisible reports 'Error opening tabs'; either way the loop
\* is left
CreateRejects(p) ==
  /\ "pending" \in DOMAIN inflight[p]
  /\ inflight[p].pending # <<>>
  /\ inflight' = [inflight EXCEPT
        ![p].pc = "done",
        ![p].pending = Tail(@),
        ![p].err = HostError]
  /\ lastCall' = [op |-> "chrome.tabs.create:rejected", caller |-> p]
  /\ lastResult' = [err |-> HostError, site |-> inflight[p].op, value |-> NoValue]
  /\ UNCHANGED <<chromeStorage, cachedStorageMode, pages, now, exported, browserTabs>>

\* the loop of caller p has no tab left: the operation returns the count
LoopEnds(p) ==
  /\ inflight[p].pc = "loop"
  /\ inflight[p].issued = Len(inflight[p].urls)
  /\ inflight' = [inflight EXCEPT ![p].pc = "done"]
  /\ lastCall' = [op |-> inflight[p].op, caller |-> p]
  /\ lastResult' = [err |-> "", site |-> "", value |-> Len(inflight[p].urls)]
  /\ UNCHANGED <<chromeStorage, cachedStorageMode, pages, now, exported, browserTabs>>

-----------------------------------------------------------------------------
(* Bulk opening, one host call at a time *)

BulkOpenNext ==
  \/ \E u \in {U1, "https://github.com/y"} : SaveTab("tabs", [url |-> u, title |-> "X"], 0)
  \/ PageInit("tabs", 0)
  \/ \E f \in 0..2 : OpenAllInDomainRead(1, "tabs", "github.com", f)
  \/ \E confirmed \in BOOLEAN : HandleOpenAllVisible(2, confirmed)
  \/ \E p \in Callers : IssueCreate(p)
  \/ \E p \in Callers : CreateResolves(p)
  \/ \E p \in Callers : CreateRejects(p)
  \/ \E p \in Callers : LoopEnds(p)

BulkOpenSpec == Init /\ [][BulkOpenNext]_vars

\* a caller is in a bulk open
InBulkOpen(p) == "urls" \in DOMAIN inflight[p]

\* C31: a bulk open has at most one chrome.tabs.create call pending; the
\* calls it has issued are for the first tabs of its list, in the order of
\* the list, each issued when all before it had opened their tab; and once
\* a call has rejected, the operation has ended with the tabs before it
\* opened and issues no further call.
C31_OpensOneAtATime ==
  \A p \in Callers :
    InBulkOpen(p) =>
      LET o == inflight[p]
      IN /\ Len(o.pending) <= 1
         /\ o.issued <= Len(o.urls)
         /\ o.pending = SubSeq(o.urls, o.resolved + 1, o.issued - (IF o.err = "" THEN 0 ELSE 1))
         /\ o.pc = "awaitCreate" <=> o.pending # <<>>
         /\ o.err = HostError /\ o.issued > 0 =>
              /\ o.pc = "done"
              /\ o.resolved = o.issued - 1
         /\ o.err = "" /\ o.pc = "done" => o.resolved = Len(o.urls)
         /\ \A k \in 1..o.resolved : \E i \in DOMAIN browserTabs : browserTabs[i] = o.urls[k]

\* a bulk open of two tabs whose second call rejected after the first tab
\* had opened
C31_Witness ==
  \E p \in Callers :
    /\ InBulkOpen(p)
    /\ inflight[p].op = "openAllInDomain"
    /\ Len(inflight[p].urls) = 2
    /\ inflight[p].issued = 2
    /\ inflight[p].resolved = 1
    /\ inflight[p].err = HostError
    /\ browserTabs = <<inflight[p].urls[1]>>
-----------------------------------------------------------------------------
(* updateSettings and migrateStorage, one awaited host call per step.  A    *)
(* step with fail = TRUE is the call rejecting; a caller that stays where   *)
(* it is forever is a process that crashed there.                           *)

\* the call of caller p has ended: what it threw, and where
Ended(p, e) ==
  [inflight[p] EXCEPT !.pc = "done", !.err = e,
                      !.failedAt = IF e = "" THEN "" ELSE inflight[p].pc]

\* the areas are left alone
SameStore == UNCHANGED <<chromeStorage, cachedStorageMode>>

\* updateSettings(updates) of caller p in context c, up to the settings it
\* awaited: const current = await getSettings()
UpdateSettingsGetsSettings(p, c, updates, fail) ==
  /\ inflight[p].pc = "idle"
  /\ LET current == ViewSettings(chromeStorage)
         changed == "storageMode" \in DOMAIN updates
                    /\ updates["storageMode"] # current.storageMode
         call == [pc |-> "getSettings", op |-> "updateSettings", ctx |-> c,
                  updates |-> updates, current |-> current,
                  cached |-> cachedStorageMode[c], data |-> EmptyObj, err |-> "", failedAt |-> ""]
     IN inflight' = [inflight EXCEPT ![p] =
          IF fail THEN [call EXCEPT !.pc = "done", !.err = HostError,
                                    !.failedAt = "getSettings"]
          ELSE [call EXCEPT !.pc = IF changed THEN "migrate:get" ELSE "settings:set"]]
  /\ SameStore
  /\ lastCall' = [op |-> "updateSettings:getSettings", caller |-> p]
  /\ lastResult' = [err |-> IF fail THEN HostError ELSE "", site |-> "", value |-> NoValue]
  /\ UNCHANGED <<pages, now, exported, browserTabs>>

\* migrateStorage reads the source and checks the size for the sync area
MigrateGets(p, fail) ==
  /\ inflight[p].pc = "migrate:get"
  /\ LET fromMode == inflight[p].current.storageMode
         toMode == inflight[p].updates["storageMode"]
         data == HostGet(chromeStorage[fromMode], DataKeys)
     IN inflight' = [inflight EXCEPT ![p] =
          IF fail THEN Ended(p, HostError)
          ELSE IF toMode = "sync" /\ JSONLength(data) > SyncLimit
          THEN Ended(p, CapacityError)
          ELSE [inflight[p] EXCEPT !.pc = "migrate:set", !.data = data]]
  /\ SameStore
  /\ lastCall' = [op |-> "migrateStorage:get", caller |-> p]
  /\ lastResult' = [err |-> inflight'[p].err, site |-> "", value |-> NoValue]
  /\ UNCHANGED <<pages, now, exported, browserTabs>>

\* a variant that names the new mode in the cache as soon as it has
\* written the destination
MigrateSetsAndSwitches(p, fail) ==
  /\ inflight[p].pc = "migrate:set"
  /\ LET fromMode == inflight[p].current.storageMode
         toMode == inflight[p].updates["storageMode"]
     IN /\ chromeStorage' = IF fail THEN chromeStorage
                            ELSE HostSet(chromeStorage, toMode, inflight[p].data)
        /\ cachedStorageMode' =
             IF fail THEN cachedStorageMode
             ELSE [cachedStorageMode EXCEPT ![inflight[p].ctx] = toMode]
        /\ inflight' = [inflight EXCEPT ![p] =
             IF fail THEN Ended(p, HostError)
             ELSE [inflight[p] EXCEPT !.pc = IF fromMode # "local" THEN "migrate:remove"
                                             ELSE "settings:set"]]
  /\ lastCall' = [op |-> "migrateStorage:set", caller |-> p]
  /\ lastResult' = [err |-> inflight'[p].err, site |-> "", value |-> NoValue]
  /\ UNCHANGED <<pages, now, exported, browserTabs>>

\* migrateStorage writes the destination; from the local area it returns,
\* and updateSettings sets the cache
MigrateSets(p, fail) ==
  /\ inflight[p].pc = "migrate:set"
  /\ LET fromMode == inflight[p].current.storageMode
         toMode == inflight[p].updates["storageMode"]
     IN /\ chromeStorage' = IF fail THEN chromeStorage
                            ELSE HostSet(chromeStorage, toMode, inflight[p].data)
        /\ cachedStorageMode' =
             IF fail \/ fromMode # "local" THEN cachedStorageMode
             ELSE [cachedStorageMode EXCEPT ![inflight[p].ctx] = toMode]
        /\ inflight' = [inflight EXCEPT ![p] =
             IF fail THEN Ended(p, HostError)
             ELSE [inflight[p] EXCEPT !.pc = IF fromMode # "local" THEN "migrate:remove"
                                             ELSE "settings:set"]]
  /\ lastCall' = [op |-> "migrateStorage:set", caller |-> p]
  /\ lastResult' = [err |-> inflight'[p].err, site |-> "", value |-> NoValue]
  /\ UNCHANGED <<pages, now, exported, browserTabs>>

\* migrateStorage clears the source, which is not the local area, and
\* returns; updateSettings sets the cache
MigrateRemoves(p, fail) ==
  /\ inflight[p].pc = "migrate:remove"
  /\ LET fromMode == inflight[p].current.storageMode
         toMode == inflight[p].updates["storageMode"]
     IN /\ chromeStorage' = IF fail THEN chromeStorage
                            ELSE HostRemove(chromeStorage, fromMode, DataKeys)
        /\ cachedStorageMode' =
             IF fail THEN cachedStorageMode
             ELSE [cachedStorageMode EXCEPT ![inflight[p].ctx] = toMode]
        /\ inflight' = [inflight EXCEPT ![p] =
             IF fail THEN Ended(p, HostError)
             ELSE [inflight[p] EXCEPT !.pc = "settings:set"]]
  /\ lastCall' = [op |-> "migrateStorage:remove", caller |-> p]
  /\ lastResult' = [err |-> inflight'[p].err, site |-> "", value |-> NoValue]
  /\ UNCHANGED <<pages, now, exported, browserTabs>>

\* updateSettings writes the new settings to the local area and returns them
SettingsSet(p, fail) ==
  /\ inflight[p].pc = "settings:set"
  /\ LET newSettings == Spread(inflight[p].current, inflight[p].updates)
     IN /\ chromeStorage' = IF fail THEN chromeStorage
                            ELSE HostSet(chromeStorage, "local", [settings |-> newSettings])
        /\ lastResult' = [err |-> IF fail THEN HostError ELSE "", site |-> "",
                          value |-> IF fail THEN NoValue ELSE newSettings]
  /\ inflight' = [inflight EXCEPT ![p] = Ended(p, IF fail THEN HostError ELSE "")]
  /\ lastCall' = [op |-> "updateSettings", caller |-> p]
  /\ UNCHANGED <<cachedStorageMode, pages, now, exported, browserTabs>>

\* the caller of an ended call goes on to whatever it does next
CallerGoesOn(p) ==
  /\ inflight[p].pc = "done"
  /\ inflight' = [inflight EXCEPT ![p] = Idle]
  /\ lastCall' = [op |-> "goesOn", caller |-> p]
  /\ lastResult' = [err |-> "", site |-> "", value |-> NoValue]
  /\ UNCHANGED <<chromeStorage, cachedStorageMode, pages, now, exported, browserTabs>>

\* caller p is inside an updateSettings that changes the mode
Migrating(p) ==
  inflight[p].pc \in {"migrate:get", "migrate:set", "migrate:remove", "settings:set"}
    /\ inflight[p].updates["storageMode"] # inflight[p].current.storageMode

-----------------------------------------------------------------------------
(* A mode change in steps, and a saveTab of the same page in between *)

MigStepNext ==
  \/ inflight[1].pc = "idle" /\ SaveTab("popup", [url |-> U1, title |-> "X"], 0)
  \/ \E u \in ModeUpdates, fail \in BOOLEAN : UpdateSettingsGetsSettings(1, "popup", u, fail)
  \/ \E fail \in BOOLEAN : MigrateGets(1, fail)
  \/ \E fail \in BOOLEAN : MigrateSets(1, fail)
  \/ \E fail \in BOOLEAN : MigrateRemoves(1, fail)
  \/ \E fail \in BOOLEAN : SettingsSet(1, fail)
  \/ CallerGoesOn(1)
  \/ Migrating(1) /\ SaveTabRead(2, "popup", [url |-> U2, title |-> "Y"], 0)
  \/ Migrating(1) /\ SaveTabWrite(2, 0)
  \/ GetAllTabs("popup", 0)

MigStepSpec == Init /\ [][MigStepNext]_vars

C36_SaveDuringMigrationKept ==
  ( /\ inflight[1].pc = "done" /\ inflight[1].err = ""
    /\ inflight[1].updates["storageMode"] # inflight[1].current.storageMode
    /\ inflight[2].pc = "done" /\ inflight[2].err = "" )
  => \E i \in DOMAIN ViewList(chromeStorage, cachedStorageMode, "popup", "tabs") :
        ViewList(chromeStorage, cachedStorageMode, "popup", "tabs")[i]
          = inflight[2].newTab
\* C38: while no updateSettings call of the page is in progress, the mode
\* its cache names, if any, is the storageMode of the settings persisted in
\* the local area.
C38_CacheCoherent ==
  inflight[1].pc \in {"idle", "done"}
    => cachedStorageMode["popup"] \in {NULL, PersistedMode(chromeStorage)}
-----------------------------------------------------------------------------
(* The full-page view filters, searches and sorts its list *)

FilterTabs ==
  { [id |-> "x", title |-> Str(<<"G", "i", "t">>), description |-> Str(<<>>),
     url |-> Str(<<"h", "u", "b">>), domain |-> Str(<<"h", "u", "b">>),
     labels |-> <<>>, dateAdded |-> 1],
    [id |-> "y", title |-> Str(<<"D">>), description |-> Str(<<>>),
     url |-> Str(<<"d", "i", "g", "i", "t">>), domain |-> Str(<<"d", "c">>),
     labels |-> <<>>, dateAdded |-> 2],
    [id |-> "z", title |-> Str(<<"g", "i">>), description |-> Str(<<"g", "i", "t">>),
     url |-> Str(<<"t", "x">>), domain |-> Str(<<"t", "x">>),
     labels |-> <<>>, dateAdded |-> 2] }

FilterQueries == { Str(<<>>), Str(<<"g", "i", "t">>), Str(<<"x">>) }

SortOrders == {"date-desc", "date-asc", "alpha-asc", "alpha-desc"}

FilterInputs == UNION { [1..n -> FilterTabs] : n \in 0..MaxSearchTabs }

FilterInit ==
  /\ chromeStorage = [local |-> EmptyArea, sync |-> EmptyArea]
  /\ cachedStorageMode = [c \in Contexts |-> NULL]
  /\ pages = [c \in Contexts |->
                IF c = "popup" THEN NewPopup
                ELSE [savedTabs |-> <<>>, allLabels |-> <<>>]]
  /\ now = 1
  /\ exported = Null
  /\ lastCall \in { [op |-> "input", allTabs |-> l, searchQuery |-> q, sortOrder |-> o] :
                       l \in FilterInputs, q \in FilterQueries, o \in SortOrders }
  /\ lastResult = [err |-> "", site |-> "", value |-> NoValue]
  /\ inflight = [p \in Callers |-> Idle]
  /\ browserTabs = <<>>

\* the search box or the sort menu changes: applyFilters() with every
\* domain and no label selected
ApplyFilters ==
  /\ lastCall.op = "input"
  /\ lastCall' = [lastCall EXCEPT !.op = "applyFilters"]
  /\ lastResult' = [err |-> "", site |-> "",
                    value |-> applyFilters(lastCall.allTabs, "all", <<>>,
                                           lastCall.searchQuery, lastCall.sortOrder)]
  /\ UNCHANGED <<chromeStorage, cachedStorageMode, pages, now, exported, inflight,
                 browserTabs>>

FilterNext == ApplyFilters

FilterSpec == FilterInit /\ [][FilterNext]_vars

\* C33: with a search query that is not empty, filteredTabs after
\* applyFilters is the list searchTabsWithRelevance returns, in its order of
\* descending score, whatever the sort order.
C33_SearchShownByRelevance ==
  (lastCall.op = "applyFilters" /\ lastCall.searchQuery # Str(<<>>))
    => lastResult.value.filteredTabs
         = searchTabsWithRelevance(lastCall.allTabs, lastCall.searchQuery)
-----------------------------------------------------------------------------
(* Tab and label operations of the popup, the mode changed from the options *)
(* page                                                                     *)

TabOps == {"saveTab", "updateTab", "deleteTab", "deleteAllInDomain", "clearAllTabs"}

LabelOps == {"addCustomLabel", "deleteCustomLabel"}

\* the user adds tabs, and labels, while the two areas together hold fewer
MaxStored == 1

StoredIn(key) == Len(chromeStorage.local[key]) + Len(chromeStorage.sync[key])

BackendNext ==
  \/ \E f \in {0, 2} :
        StoredIn("tabs") < MaxStored /\ SaveTab("popup", [url |-> U1, title |-> "X"], f)
  \/ UpdateTab("popup", "uuid-1", [labels |-> <<"custom-1">>], 0)
  \/ DeleteTab("popup", "uuid-1", 0)
  \/ DeleteAllInDomain("popup", "github.com", 0)
  \/ ClearAllTabs("popup", 0)
  \/ StoredIn("customLabels") < MaxStored /\ AddCustomLabel("popup", "Mine", "#123456", 0)
  \/ DeleteCustomLabel("popup", "custom-1", 0)
  \/ \E md \in {"merge", "replace"}, f \in {0, 3} :
        /\ StoredIn("tabs") < MaxStored
        /\ StoredIn("customLabels") < MaxStored
        /\ ImportFromJSON("popup", DocOne, md, f)
  \/ \E u \in ModeUpdates : UpdateSettings("options", u, 0)

BackendSpec == Init /\ [][BackendNext]_vars

\* the area other than a
OtherArea(a) == IF a = "local" THEN "sync" ELSE "local"

\* the member key of an area, and whether it is there
Held(area, key) == <<key \in area.present, area[key]>>

\* C37: saveTab, updateTab, deleteTab, deleteAllInDomain, clearAllTabs,
\* addCustomLabel, deleteCustomLabel and importFromJSON change nothing but
\* the area the cached mode of their page selects: the other area and the
\* settings stay as they were; the tab operations leave customLabels as it
\* was and the label operations leave tabs as it was.
C37_WritesOnlySelectedBackend ==
  [][ lastCall'.op \in TabOps \cup LabelOps \cup {"importFromJSON"} =>
        LET selected == cachedStorageMode'[lastCall'.ctx]
        IN IF selected = NULL THEN chromeStorage' = chromeStorage
           ELSE /\ chromeStorage'[OtherArea(selected)] = chromeStorage[OtherArea(selected)]
                /\ Held(chromeStorage'[selected], "settings")
                     = Held(chromeStorage[selected], "settings")
                /\ lastCall'.op \in TabOps =>
                     Held(chromeStorage'[selected], "customLabels")
                       = Held(chromeStorage[selected], "customLabels")
                /\ lastCall'.op \in LabelOps =>
                     Held(chromeStorage'[selected], "tabs")
                       = Held(chromeStorage[selected], "tabs")
    ]_vars

\* the popup, its cache still naming local after the options page moved the
\* data to sync, has deleted a label from the local area; the tabs and
\* labels of the sync area are as the migration wrote them
C37_Witness ==
  /\ lastCall.op = "deleteCustomLabel"
  /\ lastResult.err = ""
  /\ cachedStorageMode["popup"] = "local"
  /\ PersistedMode(chromeStorage) = "sync"
  /\ chromeStorage.local.customLabels = <<>>
  /\ chromeStorage.local.tabs # <<>>
  /\ chromeStorage.sync.customLabels # <<>>
  /\ chromeStorage.sync.tabs # <<>>
====
